---- MODULE Spec2Model ----
(***************************************************************************)
(* s3sync: the diff engine (S3SyncTool.on_diff) and the reconciliation     *)
(* loop (S3SyncTool.on_update) of src/s3sync/sync.py.                      *)
(*                                                                         *)
(* A run is one invocation of `s3sync update`: on_update calls on_diff,    *)
(* which scans the local tree and the bucket, merges both inventories into *)
(* the record map remote_files, and on_update then walks that map, asks    *)
(* the confirmation gate for an action per record and dispatches it.       *)
(***************************************************************************)
EXTENDS Integers, Sequences, FiniteSets, TLC

(***************************************************************************)
(* Bounds of the model.                                                    *)
(***************************************************************************)
MaxLocal == 2        \* at most this many files in the local tree
MaxRemote == 2       \* at most this many objects in the bucket

(***************************************************************************)
(* Program constants.                                                      *)
(***************************************************************************)
TZ_OFFSET_HOURS == 4         \* datetime.timedelta(hours=4)
THREAD_MAX_COUNT == 16       \* settings.THREAD_MAX_COUNT

(***************************************************************************)
(* Value universes of the inputs.                                          *)
(***************************************************************************)
LocalPaths == {"a", "A", "b"}      \* file paths below local_root
RemoteNames == {"a", "c"}          \* object names in the bucket
Sizes == {0, 1, 2}                 \* st_size / Key.size
Hashes == {"h1", "h2"}             \* md5 hex digests
OFFSET_MS == TZ_OFFSET_HOURS * 3600 * 1000
\* st_ctime in milliseconds: before, equal to, half a second after and one
\* second after the corrected remote time of an object modified at 0
CTimes == {OFFSET_MS - 1000, OFFSET_MS, OFFSET_MS + 500, OFFSET_MS + 1000}
RemoteTimes == {0}                 \* Key.last_modified, whole seconds
ModeChars == {"-", "=", "<", ">", "+", "r"}

Missing == -1        \* a dict key that is absent (numeric field)
NoName == "<none>"   \* a dict key that is absent (string field)
NoAction == "<no action>"

\* str.lower() on the names of the model
Lower(s) == IF s = "A" THEN "a" ELSE s

Keys == {Lower(p) : p \in LocalPaths} \cup {Lower(n) : n \in RemoteNames}

RECURSIVE SeqToSet(_)
SeqToSet(s) == IF s = <<>> THEN {} ELSE {Head(s)} \cup SeqToSet(Tail(s))

\* all orderings of a finite set, as sequences without repetition
RECURSIVE Perms(_)
Perms(S) ==
    IF S = {} THEN {<<>>}
    ELSE UNION {{<<x>> \o p : p \in Perms(S \ {x})} : x \in S}

Comment(tag, val, name) == [tag |-> tag, val |-> val, name |-> name]

(***************************************************************************)
(* S3SyncTool._check_file_type.  types is the --file-types argument: None  *)
(* or a comma-separated list whose first token may start with '^'.  The    *)
(* names of the trees and buckets contain no dot, so for them              *)
(* filename.split('.')[-1] is the whole lower-cased name.                  *)
(***************************************************************************)
NoTypes == "<None>"
LastDotPart(filename) == Lower(filename)

\* types.lower().split(',') with the leading '^' of the first token removed
TypeList(types) ==
    CASE types = "a" -> {"a"}
      [] types = "^a" -> {"a"}
      [] types = "a,b" -> {"a", "b"}
      [] OTHER -> {}

TypeExclude(types) == types = "^a"

FileTypeVerdict(last, types) ==
    IF types = NoTypes THEN TRUE
    ELSE IF TypeExclude(types) /\ last \in TypeList(types)
    THEN FALSE
    ELSE IF ~TypeExclude(types) /\ last \notin TypeList(types)
    THEN FALSE
    ELSE TRUE

_check_file_type(filename, types) ==
    FileTypeVerdict(LastDotPart(filename), types)

(***************************************************************************)
(* on_diff, local scan: the (key, f_path) pairs of the files below         *)
(* src_path that pass the file-type filter, in walk order.  tree is the    *)
(* local tree in walk order, one record per file with its os.stat values.  *)
(***************************************************************************)
RECURSIVE ScanLocal(_, _)
ScanLocal(tree, types) ==
    IF tree = <<>> THEN <<>>
    ELSE LET f == Head(tree)
             rest == ScanLocal(Tail(tree), types)
         IN IF ~_check_file_type(f.path, types) THEN rest
            ELSE <<[key |-> Lower(f.path), f_path |-> f.path]>> \o rest

\* os.stat(f_path) and utils.file_hash(f_path) on the local tree
Stat(tree, f_path) == CHOOSE f \in SeqToSet(tree) : f.path = f_path

(***************************************************************************)
(* on_diff, remote scan: remote_files seeded from the bucket listing, one  *)
(* record per lower-cased object name, all in state '-'.                   *)
(***************************************************************************)
RemoteRecord(file_) ==
    [key |-> file_.name, name |-> file_.name, size |-> file_.size,
     modified |-> file_.modified, md5 |-> file_.md5, state |-> "-",
     comment |-> <<>>, local_size |-> Missing, local_name |-> NoName,
     action |-> NoAction]

\* dict assignment d[k] = v
Put(d, k, v) == [x \in DOMAIN d \cup {k} |-> IF x = k THEN v ELSE d[x]]
\* del d[k]
Del(d, k) == [x \in DOMAIN d \ {k} |-> d[x]]
EmptyMap == [x \in {} |-> 0]

RECURSIVE ScanRemote(_, _, _)
ScanRemote(ls_remote, types, remote_files) ==
    IF ls_remote = <<>> THEN remote_files
    ELSE LET file_ == Head(ls_remote)
         IN IF ~_check_file_type(file_.name, types)
            THEN ScanRemote(Tail(ls_remote), types, remote_files)
            ELSE ScanRemote(Tail(ls_remote), types,
                     Put(remote_files, Lower(file_.name), RemoteRecord(file_)))

(***************************************************************************)
(* on_diff, the comparison of one local entry with the map.                *)
(***************************************************************************)
\* the share of the size that differs, in the place of the ratio
SizePercent_Difference(remote_size, local_size) ==
    (2 * (local_size - remote_size) * 10000 + local_size) \div (2 * local_size)

\* round(float(remote_size) / local_size * 100, 2), in hundredths of a percent
SizePercent(remote_size, local_size) ==
    (2 * remote_size * 10000 + local_size) \div (2 * local_size)

\* datetime.fromtimestamp(st_ctime).replace(microsecond=0), in seconds
LocalModified(st) == st.ctime \div 1000
\* strptime(modified) + timedelta(hours=4), in seconds
RemoteModified(rec) == rec.modified + TZ_OFFSET_HOURS * 3600

\* line 416 with '>=' in the place of '>'
LocalIsNewer_OrEqual(local_modified, remote_modified) ==
    local_modified >= remote_modified

\* line 416: local_modified > remote_modified
LocalIsNewer(local_modified, remote_modified) ==
    local_modified > remote_modified

LocalRecord(st) ==
    [key |-> NoName, name |-> NoName, size |-> Missing,
     modified |-> st.mtime, md5 |-> st.md5, state |-> "+",
     comment |-> <<>>, local_size |-> st.size, local_name |-> NoName,
     action |-> NoAction]

Ok(rf) == [exc |-> "none", rf |-> rf]
Raise(e, rf) == [exc |-> e, rf |-> rf]

\* line 403 without the reset of the comment list
MarkEqual_KeepsComment(rec) == [rec EXCEPT !.state = "="]

\* line 403: remote_files[key].update(state='=', comment=[])
MarkEqual(rec) == [rec EXCEPT !.state = "=", !.comment = <<>>]

\* lines 424-425, negated, with 'or' in the place of 'and'
AddsLocalOnly_Both(modes) == "+" \in modes /\ "r" \in modes

\* lines 424-425, negated: a local-only entry gets a record
AddsLocalOnly(modes) == "+" \in modes \/ "r" \in modes

\* lines 386-434 for one (key, f_path): the new map, or the exception raised
CompareOne(entry, tree, namespace, remote_files) ==
    LET key == entry.key
        st == Stat(tree, entry.f_path)
    IN
    IF key \in DOMAIN remote_files THEN
        LET rec == remote_files[key] IN
        IF rec.size = Missing THEN Raise("KeyError", remote_files)
        ELSE IF st.size # rec.size /\ st.size = 0
        THEN Raise("ZeroDivisionError", remote_files)
        ELSE
        LET size_differs == st.size # rec.size
            md5_differs == ~size_differs /\ ~namespace.skip_md5
                             /\ st.md5 # rec.md5
            equal == ~size_differs /\ ~md5_differs
            c1 == IF size_differs
                  THEN Append(rec.comment,
                           Comment("size", SizePercent(rec.size, st.size), ""))
                  ELSE IF md5_differs
                  THEN Append(rec.comment, Comment("md5: different", 0, ""))
                  ELSE rec.comment
            delta == LocalModified(st) - RemoteModified(rec)
            new == IF equal
                   THEN MarkEqual(rec)
                   ELSE [rec EXCEPT
                           !.local_size = st.size,
                           !.comment = Append(c1, Comment("modified", delta, "")),
                           !.state = IF LocalIsNewer(LocalModified(st),
                                                     RemoteModified(rec))
                                     THEN ">" ELSE "<"]
        IN IF new.state \notin namespace.modes
           THEN Ok(Del(remote_files, key))
           ELSE Ok(Put(remote_files, key, new))
    ELSE
        IF ~AddsLocalOnly(namespace.modes)
        THEN Ok(remote_files)
        ELSE Ok(Put(remote_files, key, LocalRecord(st)))

RECURSIVE CompareLoop(_, _, _, _)
CompareLoop(src_files, tree, namespace, remote_files) ==
    IF src_files = <<>> THEN Ok(remote_files)
    ELSE LET r == CompareOne(Head(src_files), tree, namespace, remote_files)
         IN IF r.exc # "none" THEN r
            ELSE CompareLoop(Tail(src_files), tree, namespace, r.rf)

(***************************************************************************)
(* on_diff, rename pass ("find renames").  ord is the order in which the   *)
(* dict remote_files is iterated; both loops iterate the same dict.        *)
(***************************************************************************)
\* lines 445-448 without the comparison of the hashes
Matches_SizeOnly(data, new_data) == data.size = new_data.local_size

\* lines 445-448: the '-' record data has the size and md5 of new_data
Matches(data, new_data) ==
    /\ data.size = new_data.local_size
    /\ data.md5 = new_data.md5

\* the inner loop: the first '-' record with the size and md5 of new_data
RECURSIVE FirstMatch(_, _, _)
FirstMatch(ord, remote_files, new_data) ==
    IF ord = <<>> THEN NoName
    ELSE LET name == Head(ord)
             data == remote_files[name]
         IN IF data.state # "-" THEN FirstMatch(Tail(ord), remote_files, new_data)
            ELSE IF ~Matches(data, new_data)
            THEN FirstMatch(Tail(ord), remote_files, new_data)
            ELSE name

\* the outer loop over the '+' records; returns the map and to_del
RECURSIVE RenameLoop(_, _, _, _)
RenameLoop(rest, ord, remote_files, to_del) ==
    IF rest = <<>> THEN [rf |-> remote_files, to_del |-> to_del]
    ELSE LET key == Head(rest)
             new_data == remote_files[key]
         IN IF new_data.state # "+"
            THEN RenameLoop(Tail(rest), ord, remote_files, to_del)
            ELSE LET name == FirstMatch(ord, remote_files, new_data)
                 IN IF name = NoName
                    THEN RenameLoop(Tail(rest), ord, remote_files, to_del)
                    ELSE RenameLoop(Tail(rest), ord,
                           Put(remote_files, name,
                               [remote_files[name] EXCEPT
                                  !.state = "r",
                                  !.local_name = key,
                                  !.local_size = new_data.local_size,
                                  !.comment = Append(@, Comment("new", 0, key))]),
                           to_del \cup {key})

\* the rename pass without the deletion of the matched '+' keys
RenamePass_KeepsLocal(remote_files, ord) ==
    RenameLoop(ord, ord, remote_files, {}).rf

\* lines 437-459: the pairing, then the deletion of the keys in to_del
RenamePass(remote_files, ord) ==
    LET r == RenameLoop(ord, ord, remote_files, {})
    IN [k \in DOMAIN r.rf \ r.to_del |-> r.rf[k]]

\* the final filter, run only when both '-' and '+' are missing
FinalFilter_BothMissing(remote_files, modes) ==
    IF "-" \notin modes /\ "+" \notin modes
    THEN [k \in {x \in DOMAIN remote_files : remote_files[x].state \in modes}
            |-> remote_files[k]]
    ELSE remote_files

\* lines 461-464: the final filter by the requested modes
FinalFilter(remote_files, modes) ==
    IF "-" \notin modes \/ "+" \notin modes
    THEN [k \in {x \in DOMAIN remote_files : remote_files[x].state \in modes}
            |-> remote_files[k]]
    ELSE remote_files

(***************************************************************************)
(* utils.list_remote_dir: False when there is no bucket, else the listing. *)
(***************************************************************************)
\* self.bucket() is None when no region holds the bucket
NoBucket == [exists |-> FALSE, objects |-> <<>>]
list_remote_dir(bucket) ==
    IF ~bucket.exists THEN [ok |-> FALSE, list |-> <<>>]
    ELSE [ok |-> TRUE, list |-> bucket.objects]

\* the keys of a dict in iteration order, where slots is the order of the
\* hash table over all possible keys
RECURSIVE IterOrder(_, _)
IterOrder(slots, d) ==
    IF slots = <<>> THEN <<>>
    ELSE IF Head(slots) \in DOMAIN d
    THEN <<Head(slots)>> \o IterOrder(Tail(slots), d)
    ELSE IterOrder(Tail(slots), d)

(***************************************************************************)
(* S3SyncTool.on_diff(namespace, print_=False): what the call evaluates    *)
(* to.  kind is "map" (the dict remote_files is returned), "None" (both    *)
(* inventories empty), "False" (self.error(...) returned) or "raise".      *)
(***************************************************************************)
Outcome(kind, remote_files, exc) ==
    [kind |-> kind, files |-> remote_files, exc |-> exc]

on_diff(namespace, local_root, tree, bucket, slots) ==
    IF ~local_root THEN Outcome("False", EmptyMap, "none")
    ELSE
    LET src_files == ScanLocal(tree, namespace.file_types)
        ls_remote == list_remote_dir(bucket)
    IN
    IF ~ls_remote.ok THEN Outcome("False", EmptyMap, "none")
    ELSE
    LET seeded == ScanRemote(ls_remote.list, namespace.file_types, EmptyMap) IN
    IF src_files = <<>> /\ DOMAIN seeded = {}
    THEN Outcome("None", EmptyMap, "none")
    ELSE
    LET compared == CompareLoop(src_files, tree, namespace, seeded) IN
    IF compared.exc # "none" THEN Outcome("raise", EmptyMap, compared.exc)
    ELSE
    LET renamed == IF "r" \in namespace.modes
                   THEN RenamePass(compared.rf, IterOrder(slots, compared.rf))
                   ELSE compared.rf
    IN Outcome("map", FinalFilter(renamed, namespace.modes), "none")

(***************************************************************************)
(* S3SyncTool.confirm, called through _confirm_update with                 *)
(* allow_remember=True and code = data['state'].  cp is                    *)
(* conf['confirm_permanent'] (NoDict when the configuration has no such    *)
(* key).  The set of possible results: ret is the value returned, cp the   *)
(* new confirm_permanent, prompted tells whether input() was called and    *)
(* all whether the answer carried the word 'all'.  The prompt loop ends    *)
(* with an answer among values + ['n'], optionally followed by 'all'.      *)
(***************************************************************************)
NoDict == [present |-> FALSE, d |-> EmptyMap]
EmptyDict == [present |-> TRUE, d |-> EmptyMap]

confirm_AlwaysPrompts(code, quiet, values, cp) ==
    IF quiet
    THEN {[ret |-> "n", cp |-> cp, prompted |-> FALSE, all |-> FALSE,
           exc |-> "none"]}
    ELSE IF ~cp.present
    THEN {[ret |-> "n", cp |-> cp, prompted |-> FALSE, all |-> FALSE,
           exc |-> "KeyError"]}
    ELSE {[ret |-> v,
           cp |-> IF all THEN [cp EXCEPT !.d = Put(cp.d, code, v)] ELSE cp,
           prompted |-> TRUE, all |-> all, exc |-> "none"] :
             v \in values \cup {"n"}, all \in BOOLEAN}

confirm(code, quiet, values, cp) ==
    IF quiet
    THEN {[ret |-> "n", cp |-> cp, prompted |-> FALSE, all |-> FALSE,
           exc |-> "none"]}
    ELSE IF ~cp.present
    THEN {[ret |-> "n", cp |-> cp, prompted |-> FALSE, all |-> FALSE,
           exc |-> "KeyError"]}
    ELSE IF code \in DOMAIN cp.d
    THEN {[ret |-> cp.d[code], cp |-> cp, prompted |-> FALSE, all |-> FALSE,
           exc |-> "none"]}
    ELSE {[ret |-> v,
           cp |-> IF all THEN [cp EXCEPT !.d = Put(cp.d, code, v)] ELSE cp,
           prompted |-> TRUE, all |-> all, exc |-> "none"] :
             v \in values \cup {"n"}, all \in BOOLEAN}

\* a decision of the gate made without calling confirm
Flagged(act, cp) ==
    {[ret |-> act, cp |-> cp, prompted |-> FALSE, all |-> FALSE,
      exc |-> "none"]}

(***************************************************************************)
(* on_update, lines 485-532: the gate for one record.  The set of possible *)
(* decisions; each gives the record's state after the branch, the action   *)
(* assigned (NoAction when the loop continues without one) and the result  *)
(* of confirm.                                                             *)
(***************************************************************************)
Decision(state, action, c) ==
    [state |-> state, action |-> action, cp |-> c.cp,
     prompted |-> c.prompted, ret |-> c.ret, all |-> c.all, exc |-> c.exc]

YesNo(state, flag, namespace, action, cp) ==
    IF flag THEN {Decision(state, action, c) : c \in Flagged("y", cp)}
    ELSE {Decision(state, IF c.ret = "n" THEN NoAction ELSE action, c) :
            c \in confirm(state, namespace.quiet, {"y"}, cp)}

Gate(data, namespace, cp) ==
    IF data.state = "+" THEN
        IF namespace.confirm_upload
        THEN {Decision("+", "upload", c) : c \in Flagged("upload", cp)}
        ELSE IF namespace.confirm_delete_local
        THEN {Decision("+", "delete_local", c) : c \in Flagged("delete_local", cp)}
        ELSE {Decision("+", IF c.ret = "n" THEN NoAction ELSE c.ret, c) :
                c \in confirm("+", namespace.quiet, {"upload", "delete_local"}, cp)}
    ELSE IF data.state = "-" THEN
        IF namespace.confirm_download
        THEN {Decision("-", "download", c) : c \in Flagged("download", cp)}
        ELSE IF namespace.confirm_delete_remote
        THEN {Decision("-", "delete_remote", c) : c \in Flagged("delete_remote", cp)}
        ELSE {Decision("-", IF c.ret = "n" THEN NoAction ELSE c.ret, c) :
                c \in confirm("-", namespace.quiet, {"download", "delete_remote"}, cp)}
    ELSE IF data.state = ">" \/ namespace.force_upload THEN
        YesNo(">", namespace.confirm_replace_upload, namespace,
              "replace_upload", cp)
    ELSE IF data.state = "<" THEN
        YesNo("<", namespace.confirm_replace_download, namespace,
              "replace_download", cp)
    ELSE
        YesNo("r", namespace.confirm_rename_remote, namespace,
              "rename_remote", cp)

(***************************************************************************)
(* The state of one `s3sync update` run.                                   *)
(***************************************************************************)
VARIABLES
    tree,               \* the files below src_path in walk order, with stat
    bucket,             \* the bucket: whether it exists, and its listing
    local_root,         \* conf.get('local_root') is set
    namespace,          \* the parsed command line
    thread_max_count,   \* conf['thread_max_count']
    confirm_permanent,  \* conf['confirm_permanent']
    pc,                 \* position of the coordinator inside on_update
    files,              \* what on_diff evaluated to; on_update writes to it
    returned,           \* what on_diff evaluated to, as it was returned
    todo,               \* the keys the for loop has still to visit
    processed,          \* on_update's counter
    size_total,         \* on_update's _size
    threads,            \* on_update's list threads (one thread per key)
    alive,              \* the threads that were started and have not ended
    calls,              \* the calls of _update_process made so far
    prompts,            \* the prompts answered: code, answer, 'all' given
    exc                 \* the exception on_update ends with ("none" if none)

(***************************************************************************)
(* The state of one ThreadPool of tasks.py and of its threads.             *)
(***************************************************************************)
VARIABLES
    num_threads,        \* ThreadPool.num_threads
    output,             \* the output argument of start(): a list, or None
    ppc,                \* position of the thread that owns the pool
    tasks,              \* the (task, args) pairs given to add_task, by index
    tasks_total,        \* ThreadPool.tasks_total
    task_queue,         \* the items of ThreadPool.task_queue
    unfinished_tasks,   \* task_queue.unfinished_tasks
    result_queue,       \* the items of ThreadPool.result_queue
    workers,            \* each Worker thread: its position and its item
    sys,                \* the System thread (the aggregator), if started
    ran                 \* the executions of tasks so far, in order

poolvars == <<num_threads, output, ppc, tasks, tasks_total, task_queue,
              unfinished_tasks, result_queue, workers, sys, ran>>

(***************************************************************************)
(* The state around one invocation of a Task outside a pool run.           *)
(***************************************************************************)
VARIABLES
    store,              \* the names of the objects in the bucket
    disk,               \* the names of the local files
    invoked             \* the last invocation of a task object, if any

taskvars == <<store, disk, invoked>>

(***************************************************************************)
(* The output list shared by the workers of a pool and the aggregator, and *)
(* the local directories the running tasks create.                         *)
(***************************************************************************)
VARIABLES
    conf,               \* conf['THREAD_MAX_COUNT'], conf['ENDED_OUTPUT_MAX_COUNT']
    surface,            \* the list `output` given to start()
    dirs,               \* the local directories that exist
    runners,            \* each worker running tasks: position and locals
    pending,            \* the tasks no worker has taken yet
    tasks_processed,    \* System.tasks_processed of the aggregator
    log                 \* what the tasks did so far, in order

surfvars == <<conf, surface, dirs, runners, pending, tasks_processed, log>>

(***************************************************************************)
(* One application of a function of the program to arguments.              *)
(***************************************************************************)
VARIABLES
    applied,            \* the function that was applied, "none" before
    args,               \* its arguments
    result              \* what it returned

funvars == <<applied, args, result>>

\* start(output=None): no list to write the progress lines to
NoOutput == "<None>"
\* ThreadPool.sys before start(), and for a pool of one thread
NoSystem == [exists |-> FALSE, alive |-> FALSE, tasks_total |-> 0,
             tasks_processed |-> 0, size |-> 0, exc |-> "none"]

syncvars == <<tree, bucket, local_root, namespace, thread_max_count,
              confirm_permanent, pc, files, returned, todo, processed,
              size_total, threads, alive, calls, prompts, exc>>

vars == <<syncvars, poolvars, taskvars, surfvars, funvars>>

inputs == <<tree, bucket, local_root, namespace, thread_max_count>>

NameRank(n) == CASE n = "A" -> 1 [] n = "a" -> 2 [] n = "b" -> 3 [] OTHER -> 4

\* the local trees: up to MaxLocal files with distinct paths, in any order
LocalFile(p, sz, h, t) ==
    [path |-> p, size |-> sz, md5 |-> h, ctime |-> t, mtime |-> t]

RECURSIVE TreesOf(_, _, _, _, _)
TreesOf(n, paths, sizes, hashes, times) ==
    IF n = 0 THEN {<<>>}
    ELSE LET shorter == TreesOf(n - 1, paths, sizes, hashes, times)
         IN shorter \cup
            {Append(t, LocalFile(p, sz, h, tm)) :
               t \in {x \in shorter : Len(x) = n - 1},
               p \in paths, sz \in sizes, h \in hashes, tm \in times}

\* each path once; the walk lists the files by name
SortedPaths(t) ==
    \A i, j \in 1..Len(t) : i < j => NameRank(t[i].path) < NameRank(t[j].path)

\* the bucket listings: up to MaxRemote objects with distinct names, in the
\* order the store lists them (by name)
RemoteObject(n, sz, h, t) ==
    [name |-> n, size |-> sz, md5 |-> h, modified |-> t]

RECURSIVE ListingsOf(_, _, _, _, _)
ListingsOf(n, names, sizes, hashes, times) ==
    IF n = 0 THEN {<<>>}
    ELSE LET shorter == ListingsOf(n - 1, names, sizes, hashes, times)
         IN shorter \cup
            {Append(l, RemoteObject(nm, sz, h, tm)) :
               l \in {x \in shorter : Len(x) = n - 1},
               nm \in names, sz \in sizes, h \in hashes, tm \in times}

\* bucket.list() yields each object once, in the order of the names
SortedNames(l) ==
    \A i, j \in 1..Len(l) : i < j => NameRank(l[i].name) < NameRank(l[j].name)

Namespace(modes, skip_md5, file_types, quiet, force_upload, confirms) ==
    [modes |-> modes, skip_md5 |-> skip_md5, file_types |-> file_types,
     quiet |-> quiet, force_upload |-> force_upload,
     confirm_upload |-> "upload" \in confirms,
     confirm_download |-> "download" \in confirms,
     confirm_replace_upload |-> "replace_upload" \in confirms,
     confirm_replace_download |-> "replace_download" \in confirms,
     confirm_delete_local |-> "delete_local" \in confirms,
     confirm_delete_remote |-> "delete_remote" \in confirms,
     confirm_rename_remote |-> "rename_remote" \in confirms]

ConfirmFlags == {"upload", "download", "replace_upload", "replace_download",
                 "delete_local", "delete_remote", "rename_remote"}

\* no pool is built and no task object is called by on_update
PoolUnused ==
    /\ num_threads = 1
    /\ output = NoOutput
    /\ ppc = "unused"
    /\ tasks = <<>>
    /\ tasks_total = 0
    /\ task_queue = <<>>
    /\ unfinished_tasks = 0
    /\ result_queue = <<>>
    /\ workers = <<>>
    /\ sys = NoSystem
    /\ ran = <<>>

TasksUnused ==
    /\ store = {}
    /\ disk = {}
    /\ invoked = <<>>

SurfaceUnused ==
    /\ conf = [THREAD_MAX_COUNT |-> 0, ENDED_OUTPUT_MAX_COUNT |-> 0]
    /\ surface = <<>>
    /\ dirs = {}
    /\ runners = <<>>
    /\ pending = <<>>
    /\ tasks_processed = 0
    /\ log = <<>>

NoArgs == <<>>
NoResult == <<>>

FunUnused ==
    /\ applied = "none"
    /\ args = NoArgs
    /\ result = NoResult

\* the state before on_update is called
InitFrom(Trees, Buckets, Namespaces, ThreadCounts, Remembered) ==
    /\ bucket \in Buckets
    /\ local_root \in BOOLEAN
    /\ tree \in IF local_root THEN Trees ELSE {<<>>}
    /\ namespace \in Namespaces
    /\ thread_max_count \in ThreadCounts
    /\ confirm_permanent \in Remembered
    /\ pc = "start"
    /\ files = Outcome("None", EmptyMap, "none")
    /\ returned = Outcome("None", EmptyMap, "none")
    /\ todo = <<>>
    /\ processed = 0
    /\ size_total = 0
    /\ threads = <<>>
    /\ alive = {}
    /\ calls = <<>>
    /\ prompts = <<>>
    /\ exc = "none"
    /\ PoolUnused
    /\ TasksUnused
    /\ SurfaceUnused
    /\ FunUnused

(***************************************************************************)
(* _update_process(name, data) run by the coordinator: the possible        *)
(* results.  ret is the value returned, raised tells that the exception of *)
(* the action was re-raised, comment is data['comment'] afterwards.  There *)
(* is no method _update_delete_local, so that action ends in the           *)
(* AttributeError branch; every other action calls the store or the file   *)
(* system, which succeeds or raises.                                       *)
(***************************************************************************)
DoneComment(data) ==
    CASE data.action = "upload" -> <<Comment("uploaded", 0, "")>>
      [] data.action = "replace_upload" -> <<Comment("uploaded(replaced)", 0, "")>>
      [] data.action = "delete_remote" -> <<Comment("deleted from s3", 0, "")>>
      [] data.action = "rename_remote" -> <<Comment("renamed", 0, "")>>
      [] OTHER -> data.comment

_update_process(data) ==
    IF data.action = "delete_local"
    THEN {[ret |-> 0, raised |-> FALSE, comment |-> data.comment]}
    ELSE {[ret |-> 1, raised |-> FALSE, comment |-> DoneComment(data)],
          [ret |-> 0, raised |-> TRUE, comment |-> data.comment]}

Alive(thrs) == SelectSeq(thrs, LAMBDA t : t \in alive)
Front(q) == SubSeq(q, 1, Len(q) - 1)
Last(q) == q[Len(q)]

\* the possible orders of the hash table behind remote_files
KeyOrders == Perms(Keys)

(***************************************************************************)
(* on_update, line 476: files = self.on_diff(namespace, print_=False).     *)
(* slots is the order of the hash table behind the dict.  An exception of  *)
(* on_diff leaves on_update before its try statement.                      *)
(***************************************************************************)
CallOnDiff ==
    /\ UNCHANGED <<poolvars, taskvars, surfvars, funvars>>
    /\ pc = "start"
    /\ \E slots \in KeyOrders :
         LET r == on_diff(namespace, local_root, tree, bucket, slots) IN
         /\ files' = r
         /\ returned' = r
         /\ IF r.kind = "raise"
            THEN pc' = "raised" /\ exc' = r.exc /\ todo' = <<>>
            ELSE /\ pc' = "loop"
                 /\ exc' = exc
                 /\ todo' = IF r.kind = "map" THEN IterOrder(slots, r.files)
                            ELSE <<>>
    /\ UNCHANGED <<inputs, confirm_permanent, processed, size_total,
                   threads, alive, calls, prompts>>

\* line 484 when files is None or False: six.iteritems(files) raises
IterateNoMap ==
    /\ UNCHANGED <<poolvars, taskvars, surfvars, funvars>>
    /\ pc = "loop"
    /\ files.kind # "map"
    /\ exc' = "AttributeError"
    /\ pc' = "finally"
    /\ UNCHANGED <<inputs, returned, confirm_permanent, files, todo, processed,
                   size_total, threads, alive, calls, prompts>>

(***************************************************************************)
(* on_update, lines 484-546: one iteration of the for loop.                *)
(***************************************************************************)
\* the record is equal: counted, no action
VisitEqual ==
    /\ UNCHANGED <<poolvars, taskvars, surfvars, funvars>>
    /\ pc = "loop" /\ files.kind = "map" /\ todo # <<>>
    /\ files.files[Head(todo)].state = "="
    /\ processed' = processed + 1
    /\ todo' = Tail(todo)
    /\ UNCHANGED <<inputs, returned, confirm_permanent, pc, files, size_total,
                   threads, alive, calls, prompts, exc>>

\* lines 536-546 for a record that got an action
Dispatch_NoLimit(name, data) ==
    IF thread_max_count > 1 THEN
        LET thrs == Alive(threads) IN
        /\ UNCHANGED <<processed, calls, exc>>
        /\ pc' = "loop"
        /\ threads' = Append(thrs, name)
        /\ alive' = alive \cup {name}
        /\ todo' = Tail(todo)
        /\ files' = [files EXCEPT !.files[name] = data]
    ELSE
        \E r \in _update_process(data) :
            /\ calls' = Append(calls, [name |-> name, action |-> data.action,
                                       ret |-> r.ret, raised |-> r.raised])
            /\ files' = [files EXCEPT
                           !.files[name] = [data EXCEPT !.comment = r.comment]]
            /\ todo' = Tail(todo)
            /\ UNCHANGED <<threads, alive>>
            /\ IF r.raised
               THEN /\ exc' = "Exception" /\ pc' = "finally"
                    /\ UNCHANGED processed
               ELSE /\ processed' = processed + r.ret
                    /\ UNCHANGED <<exc, pc>>

Dispatch(name, data) ==
    IF thread_max_count > 1 THEN
        LET thrs == Alive(threads) IN
        /\ UNCHANGED <<processed, calls, exc>>
        /\ IF Len(thrs) >= thread_max_count
           THEN /\ pc' = "wait"
                /\ threads' = thrs
                /\ files' = [files EXCEPT !.files[name] = data]
                /\ UNCHANGED <<todo, alive>>
           ELSE /\ pc' = "loop"
                /\ threads' = Append(thrs, name)
                /\ alive' = alive \cup {name}
                /\ todo' = Tail(todo)
                /\ files' = [files EXCEPT !.files[name] = data]
    ELSE
        \E r \in _update_process(data) :
            /\ calls' = Append(calls, [name |-> name, action |-> data.action,
                                       ret |-> r.ret, raised |-> r.raised])
            /\ files' = [files EXCEPT
                           !.files[name] = [data EXCEPT !.comment = r.comment]]
            /\ todo' = Tail(todo)
            /\ UNCHANGED <<threads, alive>>
            /\ IF r.raised
               THEN /\ exc' = "Exception" /\ pc' = "finally"
                    /\ UNCHANGED processed
               ELSE /\ processed' = processed + r.ret
                    /\ UNCHANGED <<exc, pc>>

Visit ==
    /\ UNCHANGED <<poolvars, taskvars, surfvars, funvars>>
    /\ pc = "loop" /\ files.kind = "map" /\ todo # <<>>
    /\ LET name == Head(todo)
           data == files.files[name]
       IN
       /\ data.state # "="
       /\ \E d \in Gate(data, namespace, confirm_permanent) :
            LET decided == [data EXCEPT !.state = d.state, !.action = d.action]
            IN
            /\ confirm_permanent' = d.cp
            /\ prompts' = IF d.prompted
                          THEN Append(prompts, [code |-> d.state,
                                                answer |-> d.ret,
                                                all |-> d.all])
                          ELSE prompts
            /\ IF d.exc # "none"
               THEN /\ exc' = d.exc /\ pc' = "finally"
                    /\ files' = [files EXCEPT !.files[name] = decided]
                    /\ UNCHANGED <<todo, processed, size_total, threads,
                                   alive, calls>>
               ELSE IF d.action = NoAction
               THEN /\ files' = [files EXCEPT !.files[name] = decided]
                    /\ todo' = Tail(todo)
                    /\ UNCHANGED <<pc, processed, size_total, threads,
                                   alive, calls, exc>>
               ELSE /\ size_total' = size_total +
                          (IF decided.local_size = Missing THEN 0
                           ELSE decided.local_size)
                    /\ Dispatch(name, decided)
    /\ UNCHANGED <<inputs, returned>>

\* lines 538-544: the limit is reached; join the last thread, then start
WaitLast ==
    /\ UNCHANGED <<poolvars, taskvars, surfvars, funvars>>
    /\ pc = "wait"
    /\ Last(threads) \notin alive
    /\ LET thrs == Front(threads) IN
       IF Len(thrs) >= thread_max_count
       THEN /\ threads' = thrs
            /\ UNCHANGED <<pc, todo, alive>>
       ELSE /\ threads' = Append(thrs, Head(todo))
            /\ alive' = alive \cup {Head(todo)}
            /\ todo' = Tail(todo)
            /\ pc' = "loop"
    /\ UNCHANGED <<inputs, returned, confirm_permanent, files, processed, size_total,
                   calls, prompts, exc>>

(***************************************************************************)
(* UploadThread.run: the method calls itself; the recursion ends in a      *)
(* RuntimeError that the bare except logs.  The target is never called.    *)
(***************************************************************************)
ThreadRun ==
    /\ UNCHANGED <<poolvars, taskvars, surfvars, funvars>>
    /\ \E t \in alive : alive' = alive \ {t}
    /\ UNCHANGED <<inputs, returned, confirm_permanent, pc, files, todo, processed,
                   size_total, threads, calls, prompts, exc>>

\* lines 548-549: the loop is over; join every thread of the list
JoinThreads ==
    /\ UNCHANGED <<poolvars, taskvars, surfvars, funvars>>
    /\ pc = "loop" /\ files.kind = "map" /\ todo = <<>>
    /\ \A i \in 1..Len(threads) : threads[i] \notin alive
    /\ pc' = "finally"
    /\ UNCHANGED <<inputs, returned, confirm_permanent, files, todo, processed,
                   size_total, threads, alive, calls, prompts, exc>>

\* lines 554-561: the summary; len(files.keys()) raises when files is no dict
Finally ==
    /\ UNCHANGED <<poolvars, taskvars, surfvars, funvars>>
    /\ pc = "finally"
    /\ IF files.kind # "map"
       THEN exc' = "AttributeError" /\ pc' = "raised"
       ELSE /\ exc' = exc
            /\ pc' = IF exc = "none" THEN "done" ELSE "raised"
    /\ UNCHANGED <<inputs, returned, confirm_permanent, files, todo, processed,
                   size_total, threads, alive, calls, prompts>>

Next ==
    \/ CallOnDiff
    \/ IterateNoMap
    \/ VisitEqual
    \/ Visit
    \/ WaitLast
    \/ ThreadRun
    \/ JoinThreads
    \/ Finally

(***************************************************************************)
(* The runs checked.  Every specification starts from a union of families  *)
(* of inputs; all of them contain the family Threaded, small inventories   *)
(* with every action confirmed on the command line and two action threads. *)
(***************************************************************************)
DefaultModes == {"-", "<", ">", "+"}       \* the default of --modes

Buckets(names, sizes, hashes) ==
    {NoBucket} \cup
    {[exists |-> TRUE, objects |-> l] :
       l \in {x \in ListingsOf(MaxRemote, names, sizes, hashes, RemoteTimes) :
                SortedNames(x)}}

Trees(paths, sizes, hashes, times) ==
    {t \in TreesOf(MaxLocal, paths, sizes, hashes, times) : SortedPaths(t)}

Threaded ==
    InitFrom(Trees(LocalPaths, {1}, Hashes, {OFFSET_MS + 1000}),
             Buckets(RemoteNames, {1}, Hashes),
             {Namespace(ModeChars, FALSE, NoTypes, FALSE, FALSE, ConfirmFlags)},
             {2}, {EmptyDict})

\* every mode string, quiet runs
AllModes ==
    InitFrom(Trees(LocalPaths, {1}, Hashes, {OFFSET_MS, OFFSET_MS + 1000}),
             Buckets(RemoteNames, {1}, Hashes),
             {Namespace(m, FALSE, NoTypes, TRUE, FALSE, {}) :
                m \in SUBSET ModeChars}
             \cup {Namespace(m, TRUE, NoTypes, TRUE, FALSE, {}) :
                     m \in {ModeChars, DefaultModes, {"r"}}}
             \cup {Namespace(m, FALSE, t, TRUE, FALSE, {}) :
                     m \in {ModeChars, DefaultModes}, t \in {"a", "^a"}},
             {1}, {EmptyDict})

\* files and objects of different sizes, with and without --skip-md5
Sized ==
    InitFrom(Trees(LocalPaths, {1, 2}, Hashes, {OFFSET_MS + 1000}),
             Buckets(RemoteNames, {1, 2}, Hashes),
             {Namespace(m, s, NoTypes, TRUE, FALSE, {}) :
                m \in {ModeChars, DefaultModes \cup {"r"}, {"r"}},
                s \in BOOLEAN},
             {1}, {EmptyDict})

Init == Threaded \/ AllModes \/ Sized

\* files of one key with every size and time, objects of every size
Timed ==
    InitFrom(Trees({"a", "A"}, Sizes, Hashes, CTimes),
             Buckets({"a"}, Sizes, Hashes),
             {Namespace(m, s, NoTypes, TRUE, FALSE, {}) :
                m \in {ModeChars, DefaultModes, {"<"}, {">"}},
                s \in BOOLEAN},
             {1}, {EmptyDict})

InitTime == Threaded \/ Timed

\* records of every state under every combination of --quiet,
\* --force-upload and the --confirm-* flags, actions run by the coordinator
Gated ==
    InitFrom(Trees({"a", "b"}, {1}, Hashes, {OFFSET_MS + 1000})
               \cup Trees({"a"}, {1}, {"h2"}, {OFFSET_MS}),
             Buckets(RemoteNames, {1}, {"h1"}),
             {Namespace(m, FALSE, NoTypes, q, f, cs) :
                m \in {ModeChars, {">"}}, q \in BOOLEAN, f \in BOOLEAN,
                cs \in SUBSET ConfirmFlags},
             {1}, {EmptyDict})

\* the same without conf['confirm_permanent'], nothing confirmed
Unconfigured ==
    InitFrom(Trees({"a", "b"}, {1}, Hashes, {OFFSET_MS + 1000}),
             Buckets(RemoteNames, {1}, {"h1"}),
             {Namespace(ModeChars, FALSE, NoTypes, q, FALSE, {}) :
                q \in BOOLEAN},
             {1, 2}, {NoDict})

InitGate == Threaded \/ Gated \/ Unconfigured

Spec == Init /\ [][Next]_vars
SpecTime == InitTime /\ [][Next]_vars
SpecGate == InitGate /\ [][Next]_vars

(***************************************************************************)
(* tasks.py: ThreadPool, Worker and System.  A task of the pool is any     *)
(* callable; what matters to the pool is whether the call raises and the   *)
(* size it reports.  One thread owns the pool: it calls start() once,      *)
(* add_task() up to MaxTasks times, before or after start(), then join().  *)
(***************************************************************************)
MaxTasks == 3
MaxThreads == 3
TaskSizes == {1, 2}

ListOutput == "<list>"

Task(size, raises) == [size |-> size, raises |-> raises]

\* range(1, self.num_threads): the indices start() gives to the workers
WorkerIndices_FromZero(n) == 0..(n - 2)

WorkerIndices(n) == 1..(n - 1)

\* Worker.__init__ and the start of the thread
Worker(index) == [index |-> index, pc |-> "top", item |-> 0]

\* System.__init__: tasks_total is the number of tasks added so far
System(total) == [exists |-> TRUE, alive |-> TRUE, tasks_total |-> total,
                  tasks_processed |-> 0, size |-> 0, exc |-> "none"]

\* ThreadPool.__init__ without auto_start
InitPool ==
    /\ num_threads \in 1..MaxThreads
    /\ output \in {NoOutput, ListOutput}
    /\ ppc = "new"
    /\ tasks = <<>>
    /\ tasks_total = 0
    /\ task_queue = <<>>
    /\ unfinished_tasks = 0
    /\ result_queue = <<>>
    /\ workers = <<>>
    /\ sys = NoSystem
    /\ ran = <<>>

\* ThreadPool.start: the aggregator for a pool of more than one thread,
\* and the workers 1 .. num_threads - 1
start ==
    /\ UNCHANGED <<syncvars, taskvars, surfvars, funvars>>
    /\ ppc = "new"
    /\ ppc' = "started"
    /\ sys' = IF num_threads > 1 THEN System(tasks_total) ELSE sys
    /\ workers' = [index \in WorkerIndices(num_threads) |-> Worker(index)]
    /\ UNCHANGED <<num_threads, output, tasks, tasks_total, task_queue,
                   unfinished_tasks, result_queue, ran>>

\* ThreadPool.add_task
add_task ==
    /\ UNCHANGED <<syncvars, taskvars, surfvars, funvars>>
    /\ ppc \in {"new", "started"}
    /\ Len(tasks) < MaxTasks
    /\ \E size \in TaskSizes, raises \in BOOLEAN :
         tasks' = Append(tasks, Task(size, raises))
    /\ tasks_total' = tasks_total + 1
    /\ task_queue' = Append(task_queue, Len(tasks) + 1)
    /\ unfinished_tasks' = unfinished_tasks + 1
    /\ UNCHANGED <<num_threads, output, ppc, result_queue, workers, sys, ran>>

\* ThreadPool.join is called
join ==
    /\ UNCHANGED <<syncvars, taskvars, surfvars, funvars>>
    /\ ppc = "started"
    /\ ppc' = "joining"
    /\ UNCHANGED <<num_threads, output, tasks, tasks_total, task_queue,
                   unfinished_tasks, result_queue, workers, sys, ran>>

\* join() that does not wait for the tasks
JoinTasksDone_NoWait ==
    /\ UNCHANGED <<syncvars, taskvars, surfvars, funvars>>
    /\ ppc = "joining"
    /\ ppc' = IF sys.exists THEN "sysjoin" ELSE "joined"
    /\ UNCHANGED <<num_threads, output, tasks, tasks_total, task_queue,
                   unfinished_tasks, result_queue, workers, sys, ran>>

\* lines 122-125: the polling loop ends, and so does task_queue.join()
JoinTasksDone ==
    /\ UNCHANGED <<syncvars, taskvars, surfvars, funvars>>
    /\ ppc = "joining"
    /\ unfinished_tasks = 0
    /\ ppc' = IF sys.exists THEN "sysjoin" ELSE "joined"
    /\ UNCHANGED <<num_threads, output, tasks, tasks_total, task_queue,
                   unfinished_tasks, result_queue, workers, sys, ran>>

\* lines 127-128: sys.join(timeout=1) returns when the second is over or
\* the aggregator thread has ended
JoinSystem ==
    /\ UNCHANGED <<syncvars, taskvars, surfvars, funvars>>
    /\ ppc = "sysjoin"
    /\ ppc' = "joined"
    /\ UNCHANGED <<num_threads, output, tasks, tasks_total, task_queue,
                   unfinished_tasks, result_queue, workers, sys, ran>>

\* Worker.run, line 27: the loop condition
WorkerLoop(w) ==
    /\ UNCHANGED <<syncvars, taskvars, surfvars, funvars>>
    /\ workers[w].pc = "top"
    /\ workers' = [workers EXCEPT
                     ![w].pc = IF unfinished_tasks = 0 THEN "ended" ELSE "get"]
    /\ UNCHANGED <<num_threads, output, ppc, tasks, tasks_total, task_queue,
                   unfinished_tasks, result_queue, sys, ran>>

\* line 29: task_queue.get(timeout=10) hands over the next item
WorkerGet(w) ==
    /\ UNCHANGED <<syncvars, taskvars, surfvars, funvars>>
    /\ workers[w].pc = "get"
    /\ task_queue # <<>>
    /\ workers' = [workers EXCEPT ![w].pc = "run", ![w].item = Head(task_queue)]
    /\ task_queue' = Tail(task_queue)
    /\ UNCHANGED <<num_threads, output, ppc, tasks, tasks_total,
                   unfinished_tasks, result_queue, sys, ran>>

\* lines 30-31: the queue stayed empty for 10 seconds
WorkerEmpty(w) ==
    /\ UNCHANGED <<syncvars, taskvars, surfvars, funvars>>
    /\ workers[w].pc = "get"
    /\ task_queue = <<>>
    /\ workers' = [workers EXCEPT ![w].pc = "ended"]
    /\ UNCHANGED <<num_threads, output, ppc, tasks, tasks_total, task_queue,
                   unfinished_tasks, result_queue, sys, ran>>

\* the call of the task with a result put on the queue even when it raises
WorkerCall_PutsOnRaise(w) ==
    /\ UNCHANGED <<syncvars, taskvars, surfvars, funvars>>
    /\ workers[w].pc = "run"
    /\ LET i == workers[w].item IN
       /\ ran' = Append(ran, [task |-> i, worker |-> w,
                              raised |-> tasks[i].raises])
       /\ workers' = [workers EXCEPT
                        ![w].pc = IF tasks[i].raises THEN "raised" ELSE "returned"]
       /\ result_queue' = Append(result_queue,
                                 [size |-> tasks[i].size, task |-> i])
    /\ UNCHANGED <<num_threads, output, ppc, tasks, tasks_total, task_queue,
                   unfinished_tasks, sys>>

\* lines 33-36: the call of the task; its result goes to the result queue
WorkerCall(w) ==
    /\ UNCHANGED <<syncvars, taskvars, surfvars, funvars>>
    /\ workers[w].pc = "run"
    /\ LET i == workers[w].item IN
       /\ ran' = Append(ran, [task |-> i, worker |-> w,
                              raised |-> tasks[i].raises])
       /\ IF tasks[i].raises
          THEN /\ workers' = [workers EXCEPT ![w].pc = "raised"]
               /\ UNCHANGED result_queue
          ELSE /\ workers' = [workers EXCEPT ![w].pc = "returned"]
               /\ result_queue' = Append(result_queue,
                                         [size |-> tasks[i].size, task |-> i])
    /\ UNCHANGED <<num_threads, output, ppc, tasks, tasks_total, task_queue,
                   unfinished_tasks, sys>>

\* lines 37-38: task_done() in the finally clause; an exception of the
\* task then leaves run() and ends the thread
WorkerTaskDone(w) ==
    /\ UNCHANGED <<syncvars, taskvars, surfvars, funvars>>
    /\ workers[w].pc \in {"returned", "raised"}
    /\ unfinished_tasks' = unfinished_tasks - 1
    /\ workers' = [workers EXCEPT
                     ![w].pc = IF workers[w].pc = "raised" THEN "dead" ELSE "top",
                     ![w].item = 0]
    /\ UNCHANGED <<num_threads, output, ppc, tasks, tasks_total, task_queue,
                   result_queue, sys, ran>>

\* System.run and System.handler for one result: the counters, then the
\* progress line; a division by tasks_total = 0 or a write to output = None
\* raises, and the exception ends the thread
SystemHandle ==
    /\ UNCHANGED <<syncvars, taskvars, surfvars, funvars>>
    /\ sys.exists /\ sys.alive
    /\ result_queue # <<>>
    /\ result_queue' = Tail(result_queue)
    /\ LET data == Head(result_queue)
           failure == IF sys.tasks_total = 0 THEN "ZeroDivisionError"
                      ELSE IF output = NoOutput THEN "TypeError"
                      ELSE "none"
       IN sys' = [sys EXCEPT !.tasks_processed = @ + 1,
                             !.size = @ + data.size,
                             !.alive = failure = "none",
                             !.exc = failure]
    /\ UNCHANGED <<num_threads, output, ppc, tasks, tasks_total, task_queue,
                   unfinished_tasks, workers, ran>>

\* the sync tool is not running
SyncUnused ==
    /\ tree = <<>>
    /\ bucket = NoBucket
    /\ local_root = FALSE
    /\ namespace = Namespace({}, FALSE, NoTypes, TRUE, FALSE, {})
    /\ thread_max_count = 1
    /\ confirm_permanent = NoDict
    /\ pc = "unused"
    /\ files = Outcome("None", EmptyMap, "none")
    /\ returned = Outcome("None", EmptyMap, "none")
    /\ todo = <<>>
    /\ processed = 0
    /\ size_total = 0
    /\ threads = <<>>
    /\ alive = {}
    /\ calls = <<>>
    /\ prompts = <<>>
    /\ exc = "none"

NextPool ==
    \/ start
    \/ add_task
    \/ join
    \/ JoinTasksDone
    \/ JoinSystem
    \/ \E w \in DOMAIN workers : WorkerLoop(w)
    \/ \E w \in DOMAIN workers : WorkerGet(w)
    \/ \E w \in DOMAIN workers : WorkerEmpty(w)
    \/ \E w \in DOMAIN workers : WorkerCall(w)
    \/ \E w \in DOMAIN workers : WorkerTaskDone(w)
    \/ SystemHandle

\* a new pool; the sync tool and the task objects take no part
InitPoolRun == SyncUnused /\ InitPool /\ TasksUnused /\ SurfaceUnused
    /\ FunUnused

SpecPool == InitPoolRun /\ [][NextPool]_vars

(***************************************************************************)
(* tasks.py: Task.__call__ and the handlers of the task variants, called   *)
(* with a worker of a pool or with worker=None.  The record is data, the   *)
(* object of the record is data['key'], env tells how the calls to the     *)
(* store and to the file system end.                                       *)
(***************************************************************************)
MaxCalls == 2

Variants == {"Upload", "ReplaceUpload", "DeleteRemote", "RenameRemote",
             "RenameLocal", "Download", "DeleteLocal"}

NoWorker == [present |-> FALSE, output |-> NoOutput]
WorkerWith(out) == [present |-> TRUE, output |-> out]

\* the diff comments a record may carry when its task is called
DiffComments ==
    {<<>>,
     <<Comment("new", 0, "a")>>,
     <<Comment("md5", 0, ""), Comment("modified", 0, "")>>}

\* the record of key c that the diff paired with the local file a
Record(size, comment) ==
    [key |-> "c", local_name |-> "a", local_path |-> "a",
     size |-> size, local_size |-> size, comment |-> comment]

\* how the calls made by the handler of a variant may end: cb tells
\* whether the transfer called the progress callback
Environments(variant) ==
    CASE variant \in {"Upload", "ReplaceUpload", "Download"} ->
           {[io |-> io, cb |-> cb] : io \in {"ok", "raises"}, cb \in BOOLEAN}
      [] variant = "RenameRemote" ->
           {[io |-> "ok", cb |-> FALSE, copy |-> "key", delete |-> d] :
              d \in {"ok", "raises"}}
           \cup {[io |-> "ok", cb |-> FALSE, copy |-> c, delete |-> "ok"] :
                   c \in {"none", "raises"}}
      [] variant = "RenameLocal" ->
           {[io |-> io, cb |-> FALSE] : io \in {"ok", "raises", "no directory"}}
      [] OTHER ->
           {[io |-> io, cb |-> FALSE] : io \in {"ok", "raises"}}

\* Task.size and its overrides
size(variant, data) ==
    CASE variant \in {"Upload", "ReplaceUpload"} -> data.local_size
      [] variant = "Download" -> data.size
      [] OTHER -> 0

\* Task.progress with output_edit: the exception raised, or "none"
progress(variant, data, worker) ==
    IF size(variant, data) # 0 /\ ~worker.present THEN "AttributeError"
    ELSE IF worker.present /\ worker.output = NoOutput THEN "TypeError"
    ELSE "none"

\* Task.output_finish: the exception raised, or "none"
output_finish(worker) ==
    IF ~worker.present THEN "none"
    ELSE IF worker.output = NoOutput THEN "TypeError"
    ELSE "none"

\* the result of a handler: the exception it raised or "none", the comment
\* of the record and the objects and files afterwards
Handled(error_, comment, objects, files_) ==
    [exc |-> error_, comment |-> comment, store |-> objects, disk |-> files_]

One(text) == <<Comment(text, 0, "")>>

\* the handler of a transfer, with the progress callback of the task
Transfer(variant, data, worker, env, done, objects, files_) ==
    IF env.io = "raises"
    THEN Handled("IOError", data.comment, store, disk)
    ELSE IF env.cb /\ progress(variant, data, worker) # "none"
    THEN Handled(progress(variant, data, worker), data.comment, store, disk)
    ELSE Handled("none", done, objects, files_)

\* RenameRemote.handler with the source object deleted before the copy
RenameRemoteHandler_DeletesFirst(data, env) ==
    IF env.copy = "raises" THEN Handled("S3Error", data.comment, store \ {data.key}, disk)
    ELSE IF env.copy = "none"
    THEN Handled("Exception", data.comment, store \ {data.key}, disk)
    ELSE Handled("none", One("renamed"),
                 (store \ {data.key}) \cup {data.local_name}, disk)

\* RenameRemote.handler
RenameRemoteHandler(data, env) ==
    IF env.copy = "raises" THEN Handled("S3Error", data.comment, store, disk)
    ELSE IF env.copy = "none"
    THEN Handled("Exception", data.comment, store, disk)
    ELSE IF env.delete = "raises"
    THEN Handled("S3Error", data.comment, store \cup {data.local_name}, disk)
    ELSE Handled("none", One("renamed"),
                 (store \cup {data.local_name}) \ {data.key}, disk)

\* the handler of each variant
handler(variant, data, worker, env) ==
    CASE variant = "Upload" ->
           Transfer(variant, data, worker, env, One("uploaded"),
                    store \cup {data.key}, disk)
      [] variant = "ReplaceUpload" ->
           Transfer(variant, data, worker, env, One("uploaded(replaced)"),
                    store \cup {data.key}, disk)
      [] variant = "Download" ->
           Transfer(variant, data, worker, env, data.comment,
                    store, disk \cup {data.local_path})
      [] variant = "DeleteRemote" ->
           IF env.io = "raises"
           THEN Handled("S3Error", data.comment, store, disk)
           ELSE Handled("none", One("deleted from s3"), store \ {data.key}, disk)
      [] variant = "RenameRemote" -> RenameRemoteHandler(data, env)
      [] variant = "RenameLocal" ->
           IF env.io = "no directory"
           THEN Handled("none", One("failed"), store, disk)
           ELSE IF env.io = "raises"
           THEN Handled("OSError", data.comment, store, disk)
           ELSE Handled("none", One("renamed"), store,
                        (disk \ {data.local_name}) \cup {data.key})
      [] OTHER ->  \* DeleteLocal: progress(0, 1), os.remove, progress(1, 1)
           IF progress(variant, data, worker) # "none"
           THEN Handled(progress(variant, data, worker), data.comment, store, disk)
           ELSE IF env.io = "raises"
           THEN Handled("OSError", data.comment, store, disk)
           ELSE Handled("none", data.comment, store, disk \ {data.local_path})

\* Task.__call__: the outcome of one invocation
Called(variant, data, worker, env) ==
    LET h == handler(variant, data, worker, env)
        sz == size(variant, data)
        exc_ == IF h.exc # "none" THEN h.exc
                ELSE IF sz # 0 /\ ~worker.present THEN "AttributeError"
                ELSE output_finish(worker)
    IN [variant |-> variant, data |-> data, worker |-> worker, env |-> env,
        exc |-> exc_, handled |-> h.exc = "none",
        returned |-> IF exc_ = "none" THEN sz ELSE Missing,
        printed |-> exc_ = "none" /\ ~worker.present,
        comment |-> h.comment, before |-> store, store |-> h.store,
        disk |-> h.disk]

\* S3SyncTool._update_rename_remote of sync.py, called by _update_process
_update_rename_remote(data, env) ==
    LET h == RenameRemoteHandler(data, env)
    IN [variant |-> "_update_rename_remote", data |-> data,
        worker |-> NoWorker, env |-> env,
        exc |-> h.exc, handled |-> h.exc = "none",
        returned |-> Missing, printed |-> FALSE,
        comment |-> h.comment, before |-> store, store |-> h.store,
        disk |-> h.disk]

\* invoked holds the last invocation, with its number
Calls == IF invoked = <<>> THEN 0 ELSE invoked[1].n
Numbered(c) == <<[n |-> Calls + 1] @@ c>>

InitTasks ==
    /\ store \in {{"c"}, {"c", "a"}}
    /\ disk = {"a"}
    /\ invoked = <<>>

\* one task object is called with a record
CallTask ==
    /\ UNCHANGED <<syncvars, poolvars, surfvars, funvars>>
    /\ Calls < MaxCalls
    /\ \E variant \in Variants, sz \in TaskSizes \cup {0},
          comment \in DiffComments,
          worker \in {NoWorker, WorkerWith(ListOutput), WorkerWith(NoOutput)} :
         \E env \in Environments(variant) :
            LET c == Called(variant, Record(sz, comment), worker, env) IN
            /\ invoked' = Numbered(c)
            /\ store' = c.store
            /\ disk' = c.disk

\* on_update runs the action rename_remote of a record
CallUpdateRenameRemote ==
    /\ UNCHANGED <<syncvars, poolvars, surfvars, funvars>>
    /\ Calls < MaxCalls
    /\ \E sz \in TaskSizes, comment \in DiffComments :
         \E env \in Environments("RenameRemote") :
            LET c == _update_rename_remote(Record(sz, comment), env) IN
            /\ invoked' = Numbered(c)
            /\ store' = c.store
            /\ disk' = c.disk

NextTasks ==
    \/ CallTask
    \/ CallUpdateRenameRemote

\* task objects called directly; no pool and no run of the sync tool
InitTasksRun == SyncUnused /\ PoolUnused /\ InitTasks /\ SurfaceUnused
    /\ FunUnused

SpecTasks == InitTasksRun /\ [][NextTasks]_vars

(***************************************************************************)
(* Properties of the diff result.                                          *)
(***************************************************************************)
Result == returned.files
Diffed == pc # "start" /\ returned.kind = "map"

\* the keys of the local files and of the bucket objects
LocalKeys == {Lower(tree[i].path) : i \in 1..Len(tree)}
RemoteKeys == {Lower(bucket.objects[i].name) : i \in 1..Len(bucket.objects)}

\* C1: every record of the map that on_diff returns has a state that is one
\* of the characters of the requested modes, whether or not the final
\* filter of lines 461-464 ran.
C1_ModeFiltering ==
    Diffed => \A k \in DOMAIN Result : Result[k].state \in namespace.modes

\* a result of several records of a run whose modes hold both '-' and '+'
\* (the final filter is skipped) from which an equal key was dropped
C1_Witness ==
    /\ Diffed
    /\ {"-", "+"} \subseteq namespace.modes
    /\ "=" \notin namespace.modes
    /\ Cardinality(DOMAIN Result) >= 2
    /\ \E k \in LocalKeys \cap RemoteKeys : k \notin DOMAIN Result

\* the keys that pass the file-type filter, and the seeded remote records
ScannedLocal == ScanLocal(tree, namespace.file_types)
Seeded == ScanRemote(bucket.objects, namespace.file_types, EmptyMap)
ScannedKeys ==
    {ScannedLocal[i].key : i \in 1..Len(ScannedLocal)} \cup DOMAIN Seeded

\* the states the comparison gives a key: '+' for a local-only key, '-' for
\* a remote-only key, else what comparing each local entry of that key with
\* the remote record gives
ClassStates(k) ==
    LET entries == {i \in 1..Len(ScannedLocal) : ScannedLocal[i].key = k}
        all == [namespace EXCEPT !.modes = ModeChars]
        one(i) == CompareOne(ScannedLocal[i], tree, all,
                             [x \in {k} |-> Seeded[k]])
    IN IF k \notin DOMAIN Seeded THEN {"+"}
       ELSE IF entries = {} THEN {"-"}
       ELSE {one(i).rf[k].state : i \in {j \in entries : one(j).exc = "none"}}

FilteredOut(k) ==
    \/ k \notin ScannedKeys
    \/ \E st \in ClassStates(k) : st \notin namespace.modes

RenamedTo(k) ==
    \E n \in DOMAIN Result : Result[n].state = "r" /\ Result[n].local_name = k

FullModesNoRename ==
    /\ {"-", "=", "<", ">", "+"} \subseteq namespace.modes
    /\ "r" \notin namespace.modes
    /\ namespace.file_types = NoTypes

\* C2 as stated: every key of the local or the remote inventory is a key of
\* the diff result unless the state it was classified into is not a
\* requested mode or the file-type filter rejected it; with all modes but
\* 'r' and no filter the keys of the result are the union of both key sets.
C2_Completeness_AsStated ==
    Diffed =>
      /\ \A k \in LocalKeys \cup RemoteKeys :
           k \in DOMAIN Result \/ FilteredOut(k)
      /\ FullModesNoRename => DOMAIN Result = LocalKeys \cup RemoteKeys

\* C2 (amended): as above, except that a local-only key that the rename pass
\* paired with a remote-only record is not a key of the result either: it is
\* the local_name of that record, which is in state 'r'.
C2_Completeness ==
    Diffed =>
      /\ \A k \in LocalKeys \cup RemoteKeys :
           k \in DOMAIN Result \/ FilteredOut(k) \/ RenamedTo(k)
      /\ FullModesNoRename => DOMAIN Result = LocalKeys \cup RemoteKeys

\* a result in which a requested local-only key was replaced by a rename
C2_Witness ==
    /\ Diffed
    /\ "+" \in namespace.modes
    /\ \E k \in LocalKeys \ DOMAIN Result : ~FilteredOut(k) /\ RenamedTo(k)

\* C3 as stated: one local-only file and one remote-only object of equal
\* size, 'r' requested, and equal hashes or --skip-md5: on_diff returns
\* exactly one record, in state 'r', under the remote key, whose local_name
\* is the local key; the local key is no key of the result.
C3_OnePair ==
    /\ local_root /\ bucket.exists
    /\ Len(tree) = 1 /\ Len(bucket.objects) = 1
    /\ Lower(tree[1].path) # Lower(bucket.objects[1].name)
    /\ tree[1].size = bucket.objects[1].size
    /\ "r" \in namespace.modes
    /\ namespace.file_types = NoTypes

C3_IsRenamed ==
    LET lk == Lower(tree[1].path)
        rk == Lower(bucket.objects[1].name)
    IN /\ returned.kind = "map"
       /\ DOMAIN Result = {rk}
       /\ Result[rk].state = "r"
       /\ Result[rk].local_name = lk

C3_RenameDetection_AsStated ==
    ( /\ pc # "start"
      /\ C3_OnePair
      /\ tree[1].md5 = bucket.objects[1].md5 \/ namespace.skip_md5 )
    => C3_IsRenamed

\* the case of C3 that the rename pass does detect: equal hashes
C3_RenameDetection_EqualHashes ==
    (pc # "start" /\ C3_OnePair /\ tree[1].md5 = bucket.objects[1].md5)
    => C3_IsRenamed

\* the first state after on_diff returned a map
JustDiffed ==
    /\ pc = "loop" /\ returned.kind = "map" /\ files = returned
    /\ Len(todo) = Cardinality(DOMAIN Result)

\* the map at the start of the rename pass
Compared == CompareLoop(ScannedLocal, tree, namespace, Seeded).rf

\* no '+' record matches two '-' records, no '-' record two '+' records
Unambiguous ==
    LET c == Compared
        plus == {k \in DOMAIN c : c[k].state = "+"}
        minus == {k \in DOMAIN c : c[k].state = "-"}
        match(p, m) == c[m].size = c[p].local_size /\ c[m].md5 = c[p].md5
    IN /\ \A p \in plus : \A m1, m2 \in minus :
            match(p, m1) /\ match(p, m2) => m1 = m2
       /\ \A m \in minus : \A p1, p2 \in plus :
            match(p1, m) /\ match(p2, m) => p1 = p2

\* C4 as stated: the map on_diff returns is the same for every order in
\* which the record map is iterated.
C4_Determinism_AsStated ==
    JustDiffed =>
      \A o \in KeyOrders :
         on_diff(namespace, local_root, tree, bucket, o) = returned

\* C4 (amended): the map on_diff returns is the same for every iteration
\* order provided no '+' record matches several '-' records and no '-'
\* record matches several '+' records.
C4_Determinism ==
    (JustDiffed /\ Unambiguous) =>
      \A o \in KeyOrders :
         on_diff(namespace, local_root, tree, bucket, o) = returned

\* a rename was found while another '-' record of the same size remained
C4_Witness ==
    /\ JustDiffed /\ Unambiguous
    /\ \E n, m \in DOMAIN Result :
         /\ Result[n].state = "r" /\ Result[m].state = "-"
         /\ Result[n].size = Result[m].size

\* C5: a record in state '=' of a diff result has an empty comment list, and
\* on_update gives such a record no action, no thread and no call of
\* _update_process.
C5_EqualNoAction ==
    /\ Diffed =>
         \A k \in DOMAIN Result :
            Result[k].state = "=" => Result[k].comment = <<>>
    /\ files.kind = "map" =>
         \A k \in DOMAIN files.files :
            Result[k].state = "=" =>
              /\ files.files[k].action = NoAction
              /\ k \notin alive
              /\ \A i \in 1..Len(threads) : threads[i] # k
              /\ \A i \in 1..Len(calls) : calls[i].name # k

\* a finished run with an equal record, reached after another local file of
\* the same key had differed from the object, and with an action elsewhere
C5_Witness ==
    /\ pc = "done"
    /\ \E k \in DOMAIN Result :
         /\ Result[k].state = "="
         /\ \E i \in 1..Len(tree) :
              Lower(tree[i].path) = k /\ tree[i].md5 # Result[k].md5
    /\ \E k \in DOMAIN files.files : files.files[k].action # NoAction

\* C6 as stated: a record in state '+' of a diff result has no remote handle
\* and its key is not the key of an object of the remote inventory.
C6_LocalOnly_AsStated ==
    Diffed =>
      \A k \in DOMAIN Result :
         Result[k].state = "+" =>
           Result[k].key = NoName /\ k \notin DOMAIN Seeded

\* C7 as stated: a record in state 'r' was a remote-only record, its
\* local_name names a local-only file of the same size and hash, that local
\* key is no key of the result, and the pairing is one-to-one.
C7_RenamePairs_AsStated ==
    Diffed =>
      /\ \A n \in DOMAIN Result :
           Result[n].state = "r" =>
             /\ n \in DOMAIN Seeded /\ n \notin LocalKeys
             /\ Result[n].local_name \in LocalKeys \ DOMAIN Seeded
             /\ \E i \in 1..Len(tree) :
                  /\ Lower(tree[i].path) = Result[n].local_name
                  /\ tree[i].size = Result[n].size
                  /\ tree[i].md5 = Result[n].md5
             /\ Result[n].local_name \notin DOMAIN Result
      /\ \A n1, n2 \in DOMAIN Result :
           (/\ Result[n1].state = "r" /\ Result[n2].state = "r"
            /\ Result[n1].local_name = Result[n2].local_name) => n1 = n2

\* the local files of key k, and a key with one local file and one object
FilesOf(k) == {i \in 1..Len(tree) : Lower(tree[i].path) = k}
OnBothSides(k) ==
    /\ k \in DOMAIN Seeded
    /\ Cardinality(FilesOf(k)) = 1
    /\ Cardinality({i \in 1..Len(bucket.objects) :
                      Lower(bucket.objects[i].name) = k}) = 1
TheFile(k) == tree[CHOOSE i \in FilesOf(k) : TRUE]

ContentDiffers(k) ==
    \/ TheFile(k).size # Seeded[k].size
    \/ ~namespace.skip_md5 /\ TheFile(k).md5 # Seeded[k].md5

\* the remote time with the 4-hour correction, in milliseconds
CorrectedMs(k) == (Seeded[k].modified + 4 * 3600) * 1000

\* '>' exactly when the local time, cut to whole seconds, is later
ExpectedState(k) ==
    IF TheFile(k).ctime >= CorrectedMs(k) + 1000 THEN ">" ELSE "<"

\* C8: a key on both sides that fails the size check or the hash check gets
\* state '>' exactly when the local time cut to seconds is strictly later
\* than the remote time plus 4 hours, and '<' otherwise; when the sizes are
\* equal and the hashes differ the comment is 'md5: different' followed by
\* the time delta.
C8_StaleDirection ==
    Diffed =>
      \A k \in LocalKeys :
         (OnBothSides(k) /\ ContentDiffers(k)) =>
           IF ExpectedState(k) \notin namespace.modes
           THEN k \notin DOMAIN Result
           ELSE /\ k \in DOMAIN Result
                /\ Result[k].state = ExpectedState(k)
                /\ Len(Result[k].comment) = 2
                /\ Result[k].comment[1].tag =
                     (IF TheFile(k).size = Seeded[k].size
                      THEN "md5: different" ELSE "size")
                /\ Result[k].comment[2].tag = "modified"
                /\ LET d == Result[k].comment[2].val IN
                     /\ CorrectedMs(k) + d * 1000 <= TheFile(k).ctime
                     /\ TheFile(k).ctime < CorrectedMs(k) + (d + 1) * 1000

\* a file half a second younger than the corrected remote time, of the same
\* size and another hash, is in the result as '<'
C8_Witness ==
    /\ Diffed
    /\ \E k \in DOMAIN Result :
         /\ OnBothSides(k) /\ ContentDiffers(k)
         /\ TheFile(k).size = Seeded[k].size
         /\ TheFile(k).ctime = CorrectedMs(k) + 500
         /\ Result[k].state = "<"
         /\ Len(Result[k].comment) = 2

\* C9 as stated: with --force-upload every key on both sides whose content
\* differs is processed as state '>' with action replace_upload, whatever
\* its timestamps, for every mode set that contains '>'.
C9_ForceUpload_AsStated ==
    ( /\ pc = "done"
      /\ namespace.force_upload
      /\ namespace.confirm_replace_upload
      /\ ">" \in namespace.modes )
    => \A k \in LocalKeys :
          (OnBothSides(k) /\ ContentDiffers(k)) =>
            /\ k \in DOMAIN files.files
            /\ files.files[k].state = ">"
            /\ files.files[k].action = "replace_upload"

\* the candidate actions of a state
Candidates(state) ==
    CASE state = "+" -> {"upload", "delete_local"}
      [] state = "-" -> {"download", "delete_remote"}
      [] state = "r" -> {"rename_remote"}
      [] state = ">" -> {"replace_upload"}
      [] state = "<" -> IF namespace.force_upload
                        THEN {"replace_download", "replace_upload"}
                        ELSE {"replace_download"}
      [] OTHER -> {}

\* C10 as stated: the action on_update assigns to a record is one of the
\* candidate actions of the state the diff gave that record.
C10_CandidateActions_AsStated ==
    files.kind = "map" =>
      \A k \in DOMAIN files.files :
         files.files[k].action # NoAction =>
           files.files[k].action \in Candidates(Result[k].state)

(***************************************************************************)
(* Properties of the confirmation gate of on_update.                       *)
(***************************************************************************)
\* the coordinator is about to visit a record that is not equal
Visiting ==
    /\ pc = "loop" /\ files.kind = "map" /\ todo # <<>>
    /\ files.files[Head(todo)].state # "="

\* a step of the for loop on that record (and not a step of a thread)
VisitStep == Visiting /\ (todo' # todo \/ pc' # pc \/ files' # files)

\* the actions of the --confirm-* flags that are set and bound to state s
FlagActions(s, ns) ==
    CASE s = "+" -> {a \in {"upload"} : ns.confirm_upload}
                    \cup {a \in {"delete_local"} : ns.confirm_delete_local}
      [] s = "-" -> {a \in {"download"} : ns.confirm_download}
                    \cup {a \in {"delete_remote"} : ns.confirm_delete_remote}
      [] s = ">" -> {a \in {"replace_upload"} : ns.confirm_replace_upload}
      [] s = "<" -> {a \in {"replace_download"} : ns.confirm_replace_download}
      [] s = "r" -> {a \in {"rename_remote"} : ns.confirm_rename_remote}
      [] OTHER -> {}

Remembered(s) == confirm_permanent.present /\ s \in DOMAIN confirm_permanent.d

\* C11: for a record of state s other than '=': a set confirm flag bound to
\* s assigns its action without a prompt; otherwise a quiet run skips the
\* record with no prompt, no action, no task and no count; otherwise the
\* decision comes from a prompt or from a remembered answer for s.
C11_ConfirmPrecedence_AsStated ==
    [][VisitStep =>
         LET name == Head(todo)
             s == files.files[name].state
             after == files'.files[name]
         IN IF FlagActions(s, namespace) # {}
            THEN after.action \in FlagActions(s, namespace) /\ prompts' = prompts
            ELSE IF namespace.quiet
            THEN /\ prompts' = prompts /\ after.action = NoAction
                 /\ calls' = calls /\ threads' = threads /\ alive' = alive
                 /\ processed' = processed
            ELSE prompts' # prompts \/ Remembered(s)]_vars

\* the values _confirm_update offers for a record of state s
Offered(s) ==
    CASE s = "+" -> {"upload", "delete_local"}
      [] s = "-" -> {"download", "delete_remote"}
      [] OTHER -> {"y"}

\* the action on_update assigns when confirm answers v for state s
ActionOf(s, v) ==
    CASE v = "n" -> NoAction
      [] s \in {"+", "-"} -> v
      [] s = ">" -> "replace_upload"
      [] s = "<" -> "replace_download"
      [] OTHER -> "rename_remote"

\* the prompts answered '<choice> all' stay remembered and are the last
\* prompt for their state; every answer is among the values offered
RememberedForGood ==
    \A i \in 1..Len(prompts) :
       /\ prompts[i].answer \in Offered(prompts[i].code) \cup {"n"}
       /\ prompts[i].all =>
            /\ Remembered(prompts[i].code)
            /\ confirm_permanent.d[prompts[i].code] = prompts[i].answer
            /\ \A j \in 1..Len(prompts) :
                 j > i => prompts[j].code # prompts[i].code

\* a step of the loop that calls confirm for a record whose state, when
\* confirm is called, is s: the remembered answer decides without a prompt,
\* and a state without a remembered answer is prompted
RememberedDecides ==
    VisitStep /\ confirm_permanent.present /\ ~namespace.quiet =>
       LET name == Head(todo)
           after == files'.files[name]
           s == after.state
       IN FlagActions(s, namespace) = {} =>
            IF Remembered(s)
            THEN /\ prompts' = prompts
                 /\ after.action = ActionOf(s, confirm_permanent.d[s])
                 /\ confirm_permanent' = confirm_permanent
            ELSE /\ Len(prompts') = Len(prompts) + 1
                 /\ Last(prompts').code = s
                 /\ after.action = ActionOf(s, Last(prompts').answer)

\* C12: after a prompt for state s is answered with a choice and 'all',
\* every later record of state s gets that decision without a prompt while
\* other states are still prompted; confirm returns only values offered for
\* the state, or 'n'.
C12_RememberAll == []RememberedForGood /\ [][RememberedDecides]_vars

\* two records of one state decided by one 'all' answer, and a later prompt
\* for another state
C12_Witness ==
    /\ pc = "done" /\ Len(prompts) = 2
    /\ prompts[1].all /\ prompts[1].answer # "n"
    /\ prompts[2].code # prompts[1].code
    /\ \E k1, k2 \in DOMAIN files.files :
         /\ k1 # k2
         /\ files.files[k1].state = prompts[1].code
         /\ files.files[k2].state = prompts[1].code
         /\ files.files[k1].action = ActionOf(prompts[1].code, prompts[1].answer)
         /\ files.files[k2].action = files.files[k1].action

(***************************************************************************)
(* Properties of the dispatch of on_update.                                *)
(***************************************************************************)
NoDuplicates(q) == \A i, j \in 1..Len(q) : i # j => q[i] # q[j]

\* the keys still to visit are distinct, the calls made are for distinct
\* keys already visited, and the local name of a rename is no key of the
\* records on_update works on
OneRecordPerKey ==
    files.kind = "map" =>
       /\ NoDuplicates(todo)
       /\ NoDuplicates([i \in 1..Len(calls) |-> calls[i].name])
       /\ \A i \in 1..Len(calls) :
            /\ calls[i].name \in DOMAIN files.files
            /\ calls[i].name \notin SeqToSet(todo)
       /\ \A k \in DOMAIN files.files :
            files.files[k].state = "r" /\ returned.files[k].state = "r" =>
               /\ files.files[k].local_name \notin DOMAIN files.files
               /\ \A i \in 1..Len(calls) :
                    calls[i].name # files.files[k].local_name
               /\ files.files[k].local_name \notin alive

\* a call of _update_process or the start of a thread is for the record
\* the loop is at, which is then left behind; the loop never goes back
DispatchOnce ==
    /\ (calls' # calls \/ alive' \ alive # {}) =>
          /\ todo # <<>> /\ todo' = Tail(todo)
          /\ calls' # calls =>
               /\ Len(calls') = Len(calls) + 1
               /\ Last(calls').name = Head(todo)
               /\ alive' = alive
          /\ alive' \ alive # {} =>
               /\ alive' \ alive = {Head(todo)}
               /\ calls' = calls
    /\ pc # "start" => todo' = todo \/ (todo # <<>> /\ todo' = Tail(todo))

\* C13: within one update run each record of the diff result is visited
\* once and gets at most one action, and the local key that became the
\* local_name of a rename is not the subject of another action.
C13_OneActionPerKey == []OneRecordPerKey /\ [][DispatchOnce]_vars

\* a rename and another action were both carried out by the coordinator
C13_Witness ==
    /\ pc = "done" /\ Len(calls) = 2
    /\ \E k \in DOMAIN files.files :
         /\ returned.files[k].state = "r"
         /\ files.files[k].action = "rename_remote"
         /\ \E i \in 1..2 : calls[i].name = k

\* the threads are scheduled: every thread that can take a step does so
\* in the end; the owner of the pool goes on to start() and join()
SpecPoolFair ==
    /\ SpecPool
    /\ WF_vars(start) /\ WF_vars(join)
    /\ WF_vars(JoinTasksDone) /\ WF_vars(JoinSystem)
    /\ WF_vars(SystemHandle)
    /\ \A w \in 1..(MaxThreads - 1) :
         /\ WF_vars(w \in DOMAIN workers /\ WorkerLoop(w))
         /\ WF_vars(w \in DOMAIN workers /\ WorkerGet(w))
         /\ WF_vars(w \in DOMAIN workers /\ WorkerEmpty(w))
         /\ WF_vars(w \in DOMAIN workers /\ WorkerCall(w))
         /\ WF_vars(w \in DOMAIN workers /\ WorkerTaskDone(w))

(***************************************************************************)
(* Properties of the thread pool.                                          *)
(***************************************************************************)
Joined == ppc = "joined"

\* the executions of task i
RunsOf(i) == {k \in 1..Len(ran) : ran[k].task = i}
\* the tasks that were called and returned
Completed == {i \in 1..Len(tasks) : \E k \in RunsOf(i) : ~ran[k].raised}

RECURSIVE SumSizes(_)
SumSizes(S) ==
    IF S = {} THEN 0
    ELSE LET i == CHOOSE x \in S : TRUE
         IN tasks[i].size + SumSizes(S \ {i})

RECURSIVE SumQueued(_)
SumQueued(q) == IF q = <<>> THEN 0 ELSE Head(q).size + SumQueued(Tail(q))

\* C14: when join() returns, every task added was taken from the queue by
\* a worker and marked done, unfinished_tasks is 0, whether the tasks
\* returned or raised; join() ends by returning.
C14_JoinAllDone ==
    Joined =>
       /\ unfinished_tasks = 0
       /\ task_queue = <<>>
       /\ \A i \in 1..Len(tasks) : RunsOf(i) # {}
       /\ \A w \in DOMAIN workers : workers[w].pc \in {"top", "get", "ended", "dead"}

\* join() returned after three tasks, some of which raised
C14_Witness ==
    /\ Joined /\ Len(tasks) = 3
    /\ \E k \in 1..Len(ran) : ran[k].raised
    /\ \E k \in 1..Len(ran) : ~ran[k].raised

\* C15: a task that raises does not stop the pool: once join() is called
\* on a started pool of more than one thread whose tasks were all added
\* before start(), every task added is executed in the end and join()
\* returns, whatever the number of tasks that raise.
C15_PartialFailure_AsStated ==
    (ppc = "joining" /\ num_threads > 1 /\ sys.tasks_total = Len(tasks))
       ~> (Joined /\ \A i \in 1..Len(tasks) : RunsOf(i) # {})

\* C16: each (task, args) pair added is executed at most once, by one
\* worker; a task that raised puts no result on the result queue and adds
\* nothing to the aggregator's count or size.
C16_AtMostOnce ==
    /\ \A i \in 1..Len(tasks) : Cardinality(RunsOf(i)) <= 1
    /\ \A k \in 1..Len(ran) : ran[k].task \in 1..Len(tasks)
    /\ \A k \in 1..Len(result_queue) : result_queue[k].task \in Completed
    /\ sys.tasks_processed + Len(result_queue) = Cardinality(Completed)
    /\ sys.size + SumQueued(result_queue) = SumSizes(Completed)

\* one task raised, another returned and was counted by the aggregator
C16_Witness ==
    /\ \E k \in 1..Len(ran) : ran[k].raised
    /\ Completed # {}
    /\ sys.tasks_processed >= 1
    /\ Len(ran) = 3

\* C17: when join() returns on a pool of more than one thread, the
\* aggregator's size is the sum of size() over the tasks that returned
\* and its tasks_processed is their number.
C17_Accounting_AsStated ==
    (Joined /\ num_threads > 1) =>
       /\ sys.size = SumSizes(Completed)
       /\ sys.tasks_processed = Cardinality(Completed)

(***************************************************************************)
(* Properties of the task variants.                                        *)
(***************************************************************************)
Invoked == invoked # <<>>
TheCall == invoked[1]

IsRename(c) == c.variant \in {"RenameRemote", "_update_rename_remote"}

\* C18: rename-remote deletes the source object only after the copy
\* returned a key; when the copy returns nothing or raises, the task
\* fails, the source object stays and the comment is not set to 'renamed'.
C18_RenameCopyThenDelete ==
    (Invoked /\ IsRename(TheCall)) =>
       LET c == TheCall IN
       /\ (c.data.key \in c.before /\ c.data.key \notin c.store) =>
             (c.env.copy = "key" /\ c.data.local_name \in c.store)
       /\ c.env.copy \in {"none", "raises"} =>
             /\ c.exc # "none"
             /\ c.store = c.before
             /\ c.comment = c.data.comment
             /\ c.comment # One("renamed")

\* a rename whose copy returned nothing: the task failed, the source stays
C18_Witness ==
    /\ Invoked /\ TheCall.variant = "RenameRemote"
    /\ TheCall.env.copy = "none"
    /\ TheCall.exc = "Exception"
    /\ TheCall.data.key \in store

\* the comments by which a task tells its outcome
OutcomeComments ==
    {One(t) : t \in {"uploaded", "uploaded(replaced)", "deleted from s3",
                     "renamed", "failed", "downloaded", "deleted"}}

\* C19: when a task of any variant returns without raising, the comment of
\* the record is a list of exactly one element that tells the outcome,
\* whatever diff comments the record carried before.
C19_OutcomeComment_AsStated ==
    (Invoked /\ TheCall.variant \in Variants /\ TheCall.exc = "none") =>
       /\ Len(TheCall.comment) = 1
       /\ TheCall.comment \in OutcomeComments

\* C20: a task of any variant called with worker=None runs its handler,
\* prints the finished line, returns {'size': size()} and raises no error
\* caused by the missing worker, for every size of the record.
C20_NoWorker_AsStated ==
    (Invoked /\ TheCall.variant \in Variants /\ ~TheCall.worker.present) =>
       /\ TheCall.exc # "AttributeError"
       /\ TheCall.handled =>
             /\ TheCall.printed
             /\ TheCall.returned = size(TheCall.variant, TheCall.data)

(***************************************************************************)
(* The output list and the local directories under concurrent workers.     *)
(* Each worker takes a task that writes a local file (Download or          *)
(* RenameLocal), runs its handler and then output_finish; the aggregator   *)
(* renders its line for every result.  The code takes no lock, so a step   *)
(* here is what the interpreter runs without switching threads: one read   *)
(* of the list or of the file system, or one store.                        *)
(***************************************************************************)
SlotCount == 3      \* conf['THREAD_MAX_COUNT'] of the runs
MaxEnded == 2       \* conf['ENDED_OUTPUT_MAX_COUNT'] is at most this
MaxJobs == 3        \* tasks in the queue

Dirs == {"d"}
FileVariants == {"Download", "RenameLocal"}

Min(a, b) == IF a <= b THEN a ELSE b

\* a line of the output list nothing was written to yet
Blank == [kind |-> "blank", by |-> 0, n |-> 0]
\* the line Task.progress formats for task n, written by the worker `index`
ProgressLine(index, n) == [kind |-> "progress", by |-> index, n |-> n]
\* the line of output_finish for task n
FinishLine(index, n) == [kind |-> "finished", by |-> index, n |-> n]
\* the line of System.handler after `count` results
SystemLine(count) == [kind |-> "system", by |-> 0, n |-> count]

\* list[index] = line
SetItem(list, index, line) == [list EXCEPT ![index + 1] = line]
\* list[lo:hi]
Slice(list, lo, hi) == SubSeq(list, Min(lo, Len(list)) + 1, Min(hi, Len(list)))
\* list[lo:hi] = new
SetSlice(list, lo, hi, new) ==
    SubSeq(list, 1, Min(lo, Len(list))) \o new
        \o SubSeq(list, Min(hi, Len(list)) + 1, Len(list))

NoJob == [variant |-> "none", n |-> 0, dir |-> "none"]
\* a worker thread between two tasks
Runner(index) == [index |-> index, pc |-> "idle", job |-> NoJob, tail |-> <<>>]

\* the queues of tasks: task n is the n-th one added
RECURSIVE JobLists(_)
JobLists(len) ==
    IF len = 0 THEN {<<>>}
    ELSE {Append(q, [variant |-> v, n |-> len, dir |-> d]) :
            q \in JobLists(len - 1), v \in FileVariants, d \in Dirs}

\* after start(output) with an output list of THREAD_MAX_COUNT lines
InitSurface ==
    /\ conf \in {[THREAD_MAX_COUNT |-> SlotCount, ENDED_OUTPUT_MAX_COUNT |-> e] :
                    e \in 1..MaxEnded}
    /\ surface = [i \in 1..SlotCount |-> Blank]
    /\ dirs \in SUBSET Dirs
    /\ runners \in {[index \in WorkerIndices(n) |-> Runner(index)] :
                        n \in 2..MaxThreads}
    /\ pending \in UNION {JobLists(len) : len \in 1..MaxJobs}
    /\ tasks_processed = 0
    /\ log = <<>>

Logged(w, what) ==
    Append(log, [n |-> runners[w].job.n, by |-> runners[w].index, what |-> what])

\* Worker.run takes a task from the queue and calls it
RunnerGet(w) ==
    /\ UNCHANGED <<syncvars, poolvars, taskvars, funvars>>
    /\ runners[w].pc = "idle"
    /\ pending # <<>>
    /\ runners' = [runners EXCEPT ![w].pc = "handler", ![w].job = Head(pending)]
    /\ pending' = Tail(pending)
    /\ UNCHANGED <<conf, surface, dirs, tasks_processed, log>>

\* handler: `if not os.path.exists(dir)`
HandlerExists(w) ==
    /\ UNCHANGED <<syncvars, poolvars, taskvars, funvars>>
    /\ runners[w].pc = "handler"
    /\ runners' = [runners EXCEPT ![w].pc =
                      IF runners[w].job.dir \in dirs THEN "transfer"
                      ELSE "makedirs"]
    /\ UNCHANGED <<conf, surface, dirs, pending, tasks_processed, log>>

\* handler: os.makedirs(dir), which raises OSError when the directory is
\* there.  Download lets it pass, and it ends the worker thread; RenameLocal
\* catches it, sets a 'failed' comment and returns without moving the file.
HandlerMakedirs(w) ==
    /\ UNCHANGED <<syncvars, poolvars, taskvars, funvars>>
    /\ runners[w].pc = "makedirs"
    /\ IF runners[w].job.dir \in dirs
       THEN /\ dirs' = dirs
            /\ IF runners[w].job.variant = "Download"
               THEN /\ runners' = [runners EXCEPT ![w].pc = "dead"]
                    /\ log' = Logged(w, "OSError")
               ELSE /\ runners' = [runners EXCEPT ![w].pc = "finish"]
                    /\ log' = Logged(w, "skipped")
       ELSE /\ dirs' = dirs \cup {runners[w].job.dir}
            /\ runners' = [runners EXCEPT ![w].pc = "transfer"]
            /\ log' = log
    /\ UNCHANGED <<conf, surface, pending, tasks_processed>>

\* output_edit, called by the progress callback of a download
output_edit(w) ==
    /\ UNCHANGED <<syncvars, poolvars, taskvars, funvars>>
    /\ runners[w].pc = "transfer"
    /\ runners[w].job.variant = "Download"
    /\ runners[w].index < Len(surface)
    /\ surface' = SetItem(surface, runners[w].index,
                          ProgressLine(runners[w].index, runners[w].job.n))
    /\ surface' # surface
    /\ UNCHANGED <<conf, dirs, runners, pending, tasks_processed, log>>

\* handler: the file is written (get_contents_to_filename) or moved
\* (os.rename) into the directory
HandlerTransfer(w) ==
    /\ UNCHANGED <<syncvars, poolvars, taskvars, funvars>>
    /\ runners[w].pc = "transfer"
    /\ runners' = [runners EXCEPT ![w].pc = "finish"]
    /\ log' = Logged(w, IF runners[w].job.dir \in dirs THEN "written"
                        ELSE "nodir")
    /\ UNCHANGED <<conf, surface, dirs, pending, tasks_processed>>

Prefix == conf.THREAD_MAX_COUNT
Total == Prefix + conf.ENDED_OUTPUT_MAX_COUNT

\* output_finish: `if len(output) >= total`
FinishTest(w) ==
    /\ UNCHANGED <<syncvars, poolvars, taskvars, funvars>>
    /\ runners[w].pc = "finish"
    /\ runners' = [runners EXCEPT ![w].pc =
                      IF Len(surface) >= Total THEN "read" ELSE "append"]
    /\ UNCHANGED <<conf, surface, dirs, pending, tasks_processed, log>>

\* output_finish: output.append(line); the task returns
FinishAppend(w) ==
    /\ UNCHANGED <<syncvars, poolvars, taskvars, funvars>>
    /\ runners[w].pc = "append"
    /\ surface' = Append(surface,
                         FinishLine(runners[w].index, runners[w].job.n))
    /\ log' = Logged(w, "finished")
    /\ runners' = [runners EXCEPT ![w] = Runner(runners[w].index)]
    /\ UNCHANGED <<conf, dirs, pending, tasks_processed>>

\* output_finish: the right-hand side output[prefix + 1:total]
FinishRead_FromPrefix(w) ==
    /\ UNCHANGED <<syncvars, poolvars, taskvars, funvars>>
    /\ runners[w].pc = "read"
    /\ runners' = [runners EXCEPT ![w].pc = "write",
                      ![w].tail = Slice(surface, Prefix, Total)]
    /\ UNCHANGED <<conf, surface, dirs, pending, tasks_processed, log>>

FinishRead(w) ==
    /\ UNCHANGED <<syncvars, poolvars, taskvars, funvars>>
    /\ runners[w].pc = "read"
    /\ runners' = [runners EXCEPT ![w].pc = "write",
                      ![w].tail = Slice(surface, Prefix + 1, Total)]
    /\ UNCHANGED <<conf, surface, dirs, pending, tasks_processed, log>>

\* output_finish: the store output[prefix:total] = ... + [line]; the task
\* returns
FinishWrite(w) ==
    /\ UNCHANGED <<syncvars, poolvars, taskvars, funvars>>
    /\ runners[w].pc = "write"
    /\ surface' = SetSlice(surface, Prefix, Total,
                    Append(runners[w].tail,
                           FinishLine(runners[w].index, runners[w].job.n)))
    /\ log' = Logged(w, "finished")
    /\ runners' = [runners EXCEPT ![w] = Runner(runners[w].index)]
    /\ UNCHANGED <<conf, dirs, pending, tasks_processed>>

Results == Len(SelectSeq(log, LAMBDA e : e.what = "finished"))

\* System.run and System.handler for one result of the result queue
SystemRender ==
    /\ UNCHANGED <<syncvars, poolvars, taskvars, funvars>>
    /\ tasks_processed < Results
    /\ tasks_processed' = tasks_processed + 1
    /\ surface' = SetItem(surface, 0, SystemLine(tasks_processed'))
    /\ UNCHANGED <<conf, dirs, runners, pending, log>>

NextSurface ==
    \/ \E w \in DOMAIN runners : RunnerGet(w)
    \/ \E w \in DOMAIN runners : HandlerExists(w)
    \/ \E w \in DOMAIN runners : HandlerMakedirs(w)
    \/ \E w \in DOMAIN runners : output_edit(w)
    \/ \E w \in DOMAIN runners : HandlerTransfer(w)
    \/ \E w \in DOMAIN runners : FinishTest(w)
    \/ \E w \in DOMAIN runners : FinishAppend(w)
    \/ \E w \in DOMAIN runners : FinishRead(w)
    \/ \E w \in DOMAIN runners : FinishWrite(w)
    \/ SystemRender

InitSurfaceRun == SyncUnused /\ PoolUnused /\ TasksUnused /\ InitSurface
    /\ FunUnused

SpecSurface == InitSurfaceRun /\ [][NextSurface]_vars

(***************************************************************************)
(* Claims about the shared output list.                                    *)
(***************************************************************************)
\* the finished lines output_finish has issued so far, oldest first
RECURSIVE LinesOf(_)
LinesOf(entries) ==
    IF entries = <<>> THEN <<>>
    ELSE LET rest == LinesOf(Front(entries))
             e == Last(entries)
         IN  IF e.what = "finished"
             THEN Append(rest, FinishLine(e.by, e.n)) ELSE rest

Issued == LinesOf(log)
\* the most recent finished lines the ring has room for
Recent ==
    SubSeq(Issued,
           Len(Issued) - Min(Len(Issued), conf.ENDED_OUTPUT_MAX_COUNT) + 1,
           Len(Issued))
\* the lines after the worker slots
Ring == SubSeq(surface, Prefix + 1, Len(surface))
\* no worker is between the test and the store of output_finish
NoFinishUnderWay ==
    \A w \in DOMAIN runners : runners[w].pc \notin {"append", "read", "write"}

\* C21 as stated: under every interleaving of finishing workers, progress
\* reports and the aggregator, the output list never holds more than
\* THREAD_MAX_COUNT + ENDED_OUTPUT_MAX_COUNT lines, and no finished line is
\* lost (each of the most recent ones is on the list) or duplicated.
C21_SurfaceSerialized_AsStated ==
    /\ Len(surface) <= Total
    /\ NoFinishUnderWay =>
          /\ \A i \in 1..Len(Recent) : Recent[i] \in SeqToSet(Ring)
          /\ \A p, q \in 1..Len(Ring) :
                (p # q /\ Ring[p].kind = "finished") => Ring[p] # Ring[q]

OneWorker == Cardinality(DOMAIN runners) = 1

FinishStep ==
    /\ Len(log') = Len(log) + 1
    /\ Last(log').what = "finished"

\* C22: when tasks finish one at a time on a list that starts with
\* THREAD_MAX_COUNT lines, the lines after the worker slots are the most
\* recent finished lines, oldest first and newest last, the list grows to
\* THREAD_MAX_COUNT + ENDED_OUTPUT_MAX_COUNT lines and keeps that length,
\* and a finishing task leaves the worker slots as they were.
C22_RingState ==
    OneWorker =>
        /\ Ring = Recent
        /\ Len(surface) = Prefix + Min(Len(Issued), conf.ENDED_OUTPUT_MAX_COUNT)

C22_Ring ==
    /\ []C22_RingState
    /\ [][(OneWorker /\ FinishStep) =>
            SubSeq(surface', 1, Prefix) = SubSeq(surface, 1, Prefix)]_vars

\* one worker has finished more tasks than the ring holds: a line was dropped
C22_Witness ==
    /\ OneWorker
    /\ Len(Issued) > conf.ENDED_OUTPUT_MAX_COUNT
    /\ conf.ENDED_OUTPUT_MAX_COUNT > 1
    /\ Len(surface) = Total

\* C23: the aggregator's line is only ever in slot 0; a progress line is
\* only ever in the slot of the worker that wrote it; the worker indices are
\* distinct and lie in 1..num_threads-1.
C23_OwnSlots ==
    /\ \A w \in DOMAIN runners :
          /\ runners[w].index \in 1..Cardinality(DOMAIN runners)
          /\ \A v \in DOMAIN runners :
                v # w => runners[v].index # runners[w].index
    /\ \A p \in 1..Len(surface) :
          /\ surface[p].kind = "system" => p = 1
          /\ surface[p].kind = "progress" =>
                /\ surface[p].by = p - 1
                /\ p # 1
                /\ \E w \in DOMAIN runners : runners[w].index = p - 1

\* the aggregator and two workers have each written their own slot
C23_Witness ==
    /\ surface[1].kind = "system"
    /\ surface[2].kind = "progress"
    /\ surface[3].kind = "progress"

\* C25 as stated: under every interleaving no Download and no RenameLocal
\* fails or skips its write because another task created the directory
\* first, and the directory is there when the file is written or moved.
C25_DirectoryReady_AsStated ==
    \A i \in 1..Len(log) : log[i].what \notin {"OSError", "skipped", "nodir"}

(***************************************************************************)
(* Runs of on_update with action threads, and runs of a ThreadPool.        *)
(***************************************************************************)
InitBounded == Threaded \/ InitPoolRun

NextBounded == Next \/ NextPool

SpecBounded == InitBounded /\ [][NextBounded]_vars

\* the workers of the pool inside the call of a task
Running == {w \in DOMAIN workers : workers[w].pc = "run"}

\* C24: during on_update never more than thread_max_count action threads
\* are alive, and a ThreadPool never runs more than num_threads task
\* handlers at the same time.
C24_BoundedParallelism ==
    /\ pc # "unused" => Cardinality(alive) <= thread_max_count
    /\ ppc # "unused" => Cardinality(Running) <= num_threads

\* the coordinator waits at the limit with thread_max_count threads alive
C24_Witness ==
    /\ pc = "wait"
    /\ thread_max_count > 1
    /\ Cardinality(alive) = thread_max_count

\* every worker of a pool of three threads runs a task
C24_PoolSaturated ==
    /\ ppc # "unused"
    /\ num_threads > 2
    /\ Cardinality(Running) = num_threads - 1

(***************************************************************************)
(* The file-type filter on names with directories and dots.  A name is the *)
(* sequence of its characters.                                             *)
(***************************************************************************)
MaxName == 4        \* characters of a name

NameChars == {"a", "A", "b", ".", "/"}

RECURSIVE CharSeqs(_)
CharSeqs(len) ==
    IF len = 0 THEN {<<>>}
    ELSE {Append(q, c) : q \in CharSeqs(len - 1), c \in NameChars}

\* the names of files below the root: no component is empty or starts with
\* a dot
ObjectNames ==
    {q \in UNION {CharSeqs(len) : len \in 1..MaxName} :
        /\ Head(q) \notin {"/", "."}
        /\ Last(q) # "/"
        /\ \A i \in 1..(Len(q) - 1) :
              q[i] = "/" => q[i + 1] \notin {"/", "."}}

\* s.split(sep)[-1]
RECURSIVE SplitLast(_, _)
SplitLast(s, sep) ==
    IF s = <<>> THEN <<>>
    ELSE IF Last(s) = sep THEN <<>>
    ELSE Append(SplitLast(Front(s), sep), Last(s))

\* the string of a sequence of characters
RECURSIVE Join(_)
Join(s) == IF s = <<>> THEN "" ELSE Head(s) \o Join(Tail(s))

\* filename.lower()
LowerChars(s) == [i \in 1..Len(s) |-> Lower(s[i])]

\* filename.lower().split('.')[-1]
LastDotPartOf(s) == Join(SplitLast(LowerChars(s), "."))

\* the base name os.walk and os.listdir give for a file
BaseName(s) == SplitLast(s, "/")

\* on_diff, local scan: the filter is given the base name of the file
LocalVerdict(name, types) == FileTypeVerdict(LastDotPartOf(BaseName(name)), types)

\* on_diff, remote scan: the filter is given the name of the object
RemoteVerdict(name, types) == FileTypeVerdict(LastDotPartOf(name), types)

FileTypes == {NoTypes, "a", "^a", "a,b"}

InitFilter ==
    /\ SyncUnused /\ PoolUnused /\ TasksUnused /\ SurfaceUnused
    /\ applied = "none"
    /\ args \in {<<name, types>> : name \in ObjectNames, types \in FileTypes}
    /\ result = NoResult

\* both scans of on_diff meet the name
ApplyFilter ==
    /\ UNCHANGED <<syncvars, poolvars, taskvars, surfvars>>
    /\ applied = "none"
    /\ applied' = "_check_file_type"
    /\ result' = [local |-> LocalVerdict(args[1], args[2]),
                  remote |-> RemoteVerdict(args[1], args[2])]
    /\ UNCHANGED args

NextFilter == ApplyFilter

SpecFilter == InitFilter /\ [][NextFilter]_vars

\* C26 as stated: for every name and every allow-list or '^' deny-list the
\* filter gives the local candidate (base file name) and the remote
\* candidate (full object name) of the same key the same verdict.
C26_SameVerdict_AsStated ==
    applied = "_check_file_type" => result.local = result.remote

\* C27: when a key is on both sides with different sizes and the remote
\* size is 0, on_diff returns its map, and the size comment of the record
\* reports 0 percent.
C27_ZeroRemoteSize ==
    pc # "start" =>
      \A k \in LocalKeys :
         (OnBothSides(k) /\ Seeded[k].size = 0 /\ TheFile(k).size # 0) =>
           /\ returned.kind = "map"
           /\ k \in DOMAIN Result =>
                /\ Len(Result[k].comment) >= 1
                /\ Result[k].comment[1] = Comment("size", 0, "")

\* an empty object and a file of the same key that is not empty: the record
\* is in the result with its size comment
C27_Witness ==
    /\ Diffed
    /\ \E k \in DOMAIN Result :
         /\ k \in LocalKeys
         /\ OnBothSides(k)
         /\ Seeded[k].size = 0
         /\ TheFile(k).size = 2
         /\ Result[k].comment[1].tag = "size"

\* C28 as stated: when the bucket is missing, on_diff raises UserError to
\* its caller; it returns neither a map nor any other value.
C28_MissingBucket_AsStated ==
    (pc # "start" /\ pc # "unused" /\ local_root /\ ~bucket.exists) =>
        /\ returned.kind = "raise"
        /\ returned.exc = "UserError"

(***************************************************************************)
(* utils.file_path_info.  A path is the sequence of its components, with   *)
(* a flag telling whether it starts at '/'.  The component 'a+' is a       *)
(* directory name that holds a character with a meaning in a regular       *)
(* expression.                                                             *)
(***************************************************************************)
MaxDepth == 2       \* components of the root and of the path argument

PathNames == {"a", "b", "a+"}

RECURSIVE PartLists(_)
PartLists(len) ==
    IF len = 0 THEN {<<>>}
    ELSE {Append(q, c) : q \in PartLists(len - 1), c \in PathNames}

PartsUpTo(lo, hi) == UNION {PartLists(len) : len \in lo..hi}

AbsPath(parts) == [kind |-> "abs", parts |-> parts]
RelPath(parts) == [kind |-> "rel", parts |-> parts]
NonePath == [kind |-> "none", parts |-> <<>>]     \* the argument None
DotPath == [kind |-> "dot", parts |-> <<>>]       \* the argument '.'

\* re.match of one component used as a pattern against one component:
\* 'a+' as a pattern is one or more 'a', every other name is itself
ComponentMatches(pattern, text) ==
    IF pattern = "a+" THEN text = "a" ELSE pattern = text

\* re.sub('^{}/'.format(project_root), '', path): the root is used as the
\* pattern as it is; without a match the path is returned unchanged
SubRoot(project_root, path) ==
    IF /\ Len(path.parts) > Len(project_root)
       /\ \A i \in 1..Len(project_root) :
             ComponentMatches(project_root[i], path.parts[i])
    THEN RelPath(SubSeq(path.parts, Len(project_root) + 1, Len(path.parts)))
    ELSE path

\* file_path_info(path) with find_project_root() and get_cwd() as given
file_path_info(project_root, current_root, path) ==
    LET path1 == IF path.kind \in {"none", "dot"}
                 THEN AbsPath(current_root) ELSE path
    IN
    IF path1.kind = "abs" THEN
        IF path1.parts = project_root
        THEN [path |-> AbsPath(project_root), key |-> RelPath(<<>>)]
        ELSE [path |-> path1, key |-> SubRoot(project_root, path1)]
    ELSE IF project_root = current_root
    THEN [path |-> AbsPath(project_root \o path1.parts), key |-> path1]
    ELSE LET joined == AbsPath(current_root \o path1.parts)
         IN  [path |-> joined, key |-> SubRoot(project_root, joined)]

\* a project root, a working directory at or below it, and a path argument
\* that is absent, relative, or absolute at or below the root
InitPaths ==
    /\ SyncUnused /\ PoolUnused /\ TasksUnused /\ SurfaceUnused
    /\ applied = "none"
    /\ args \in {[root |-> r, cwd |-> r \o sub, path |-> p] :
                    r \in PartsUpTo(1, MaxDepth),
                    sub \in PartsUpTo(0, MaxDepth - 1),
                    p \in {NonePath, DotPath}
                          \cup {RelPath(q) : q \in PartsUpTo(1, MaxDepth)}}
             \cup {[root |-> r, cwd |-> r \o sub, path |-> AbsPath(r \o q)] :
                    r \in PartsUpTo(1, MaxDepth),
                    sub \in PartsUpTo(0, MaxDepth - 1),
                    q \in PartsUpTo(0, MaxDepth)}
    /\ result = NoResult

ApplyFilePathInfo ==
    /\ UNCHANGED <<syncvars, poolvars, taskvars, surfvars>>
    /\ applied = "none"
    /\ applied' = "file_path_info"
    /\ result' = file_path_info(args.root, args.cwd, args.path)
    /\ UNCHANGED args

NextPaths == ApplyFilePathInfo

SpecPaths == InitPaths /\ [][NextPaths]_vars

\* the components of the location the argument addresses
Target ==
    CASE args.path.kind \in {"none", "dot"} -> args.cwd
      [] args.path.kind = "rel" -> args.cwd \o args.path.parts
      [] OTHER -> args.path.parts

\* C29 as stated: for every root R, working directory at or below R and
\* path argument that is absent, relative or absolute under R, the result
\* is (absolute location of the target, that location relative to R): the
\* key is empty exactly when the target is R, R + '/' + key is the path
\* when the key is not empty, and a relative path and the absolute path of
\* the same target give the same pair.
C29_PathAndKey_AsStated ==
    applied = "file_path_info" =>
        /\ result.path = AbsPath(Target)
        /\ result.key =
             RelPath(SubSeq(Target, Len(args.root) + 1, Len(Target)))
        /\ (result.key.parts = <<>>) <=> (Target = args.root)
        /\ result.key.parts # <<>> =>
             /\ result.key.kind = "rel"
             /\ AbsPath(args.root \o result.key.parts) = result.path
        /\ args.path.kind = "rel" =>
             file_path_info(args.root, args.cwd, AbsPath(Target)) = result

\* C30 as stated: for every num_threads >= 1, num_threads = 1 included,
\* once join() is called on a pool whose tasks were all added before
\* start() and none of whose tasks raises, every task is executed in the
\* end and join() returns.
C30_Progress_AsStated ==
    ( /\ ppc = "joining"
      /\ num_threads > 1 => sys.tasks_total = Len(tasks)
      /\ \A i \in 1..Len(tasks) : ~tasks[i].raises )
       ~> (Joined /\ \A i \in 1..Len(tasks) : RunsOf(i) # {})

\* the same for pools of more than one thread
C30_ProgressWithWorkers ==
    ( /\ ppc = "joining"
      /\ num_threads > 1
      /\ sys.tasks_total = Len(tasks)
      /\ \A i \in 1..Len(tasks) : ~tasks[i].raises )
       ~> (Joined /\ \A i \in 1..Len(tasks) : RunsOf(i) # {})

\* C31 as stated: tasks are executed whatever the order of start() and
\* add_task(): once join() is called on a pool of more than one thread to
\* which a task was added after start(), and none of whose tasks raises,
\* every task is executed in the end and join() returns.
C31_AddAfterStart_AsStated ==
    ( /\ ppc = "joining"
      /\ num_threads > 1
      /\ sys.tasks_total < Len(tasks)
      /\ \A i \in 1..Len(tasks) : ~tasks[i].raises )
       ~> (Joined /\ \A i \in 1..Len(tasks) : RunsOf(i) # {})

\* C32 as stated: for every order of add_task and start, the aggregator
\* (given an output list) never fails on a result, its tasks_processed
\* never exceeds its tasks_total, and its tasks_total is the number of
\* tasks added to the pool.
C32_AggregatorTotals_AsStated ==
    (sys.exists /\ output = ListOutput) =>
        /\ sys.exc = "none"
        /\ sys.tasks_processed <= sys.tasks_total
        /\ ppc \in {"joining", "sysjoin", "joined"} =>
              sys.tasks_total = Len(tasks)

\* on_update has returned or raised
Finished == pc \in {"done", "raised"}
\* the records on_update assigned an action to
Assigned ==
    IF files.kind = "map"
    THEN {k \in DOMAIN files.files : files.files[k].action # NoAction}
    ELSE {}
\* the invocations of _update_process for the record k
CallsOf(k) == {i \in 1..Len(calls) : calls[i].name = k}

\* C33 as stated: when on_update finishes, _update_process was invoked
\* exactly once for every record that was assigned an action, in
\* single-thread mode and with thread_max_count > 1 alike.
C33_HandlerInvoked_AsStated ==
    Finished => \A k \in Assigned : Cardinality(CallsOf(k)) = 1

\* the same for single-thread mode only
C33_HandlerInvokedByCoordinator ==
    (Finished /\ thread_max_count <= 1) =>
        \A k \in Assigned : Cardinality(CallsOf(k)) = 1

\* the invocations of _update_process that ran the action to its end
RanToCompletion == {i \in 1..Len(calls) : calls[i].ret = 1 /\ ~calls[i].raised}
\* the second number of the summary line
skipped == Cardinality(DOMAIN files.files) - processed

\* C34 as stated: at the end of on_update the processed count is the number
\* of records whose action ran to completion (records in state '=' not
\* counted), and processed plus skipped is the number of records, with
\* thread_max_count > 1 and in single-thread mode alike.
C34_ProcessedCount_AsStated ==
    (Finished /\ files.kind = "map") =>
        /\ processed = Cardinality(RanToCompletion)
        /\ skipped >= 0
        /\ processed + skipped = Cardinality(DOMAIN files.files)

\* what the count is: the records in state '=' plus the actions the
\* coordinator itself ran to completion
C34_ProcessedCount_Actual ==
    (Finished /\ files.kind = "map") =>
        processed = Cardinality(RanToCompletion)
            + Cardinality({k \in DOMAIN files.files :
                             returned.files[k].state = "="
                             /\ k \notin SeqToSet(todo)})

\* C35 as stated: when RenameLocal cannot create the destination directory
\* no rename happens and the task counts as failed: the call returns no
\* result for the aggregator and emits no 'renamed (local)' line.
C35_FailedNotCompleted_AsStated ==
    ( /\ Invoked
      /\ TheCall.variant = "RenameLocal"
      /\ TheCall.env.io = "no directory" ) =>
        /\ TheCall.data.local_name \in disk
        /\ TheCall.comment # One("renamed")
        /\ TheCall.returned = Missing
        /\ ~TheCall.printed

\* C36 as stated: the failure of one record's action ends that record
\* only: when on_update finishes after an action failed, every record of
\* the diff result has been visited (offered to the gate and dispatched).
C36_FailureIsLocal_AsStated ==
    ( /\ Finished
      /\ files.kind = "map"
      /\ \E i \in 1..Len(calls) : calls[i].raised ) =>
        todo = <<>>

\* an action that ends in AttributeError or NotImplementedError is skipped
\* and the loop goes on
C36_NotDevelopedGoesOn ==
    [][(calls' # calls /\ ~Last(calls').raised) => pc' = "loop"]_vars

\* C37 as stated: when on_diff yields no map (both inventories empty, or
\* the bucket or the local root missing), on_update dispatches no action
\* and ends with its summary, without raising.
C37_NoMapTerminates_AsStated ==
    (pc # "start" /\ pc # "unused" /\ returned.kind \in {"None", "False"}) =>
        /\ calls = <<>> /\ threads = <<>>
        /\ pc # "raised"

\* C38 as stated: for every pair of sizes of a key on both sides, local
\* size 0 against a remote size above 0 included, on_diff completes with
\* the key classified '<' or '>' and a size comment; no pair of sizes ends
\* the diff in a division error.
C38_AnySizePair_AsStated ==
    pc # "start" =>
      \A k \in LocalKeys :
         (OnBothSides(k) /\ TheFile(k).size # Seeded[k].size) =>
           /\ returned.exc # "ZeroDivisionError"
           /\ returned.kind = "map"
           /\ k \in DOMAIN Result =>
                /\ Result[k].state \in {"<", ">"}
                /\ Len(Result[k].comment) >= 1
                /\ Result[k].comment[1].tag = "size"

====
